---- MODULE Spec2Model ----
(***************************************************************************)
(* Model of vroom::io::parse (src/utils/input_parser.cpp): the JSON        *)
(* problem document is walked stage by stage and either an Input aggregate *)
(* is returned or the first Exception is propagated.                       *)
(*                                                                         *)
(* JSON values are records [t, n, s, a]: t is the rapidjson type class,    *)
(* n the number (for numbers), s the text (for strings), a the elements    *)
(* (for arrays).  Number classes: "uint" fits 32 unsigned bits, "uint64"   *)
(* is an integer in [2^32, 2^64) (n is its offset from 2^32), "int" is a   *)
(* negative integer (n is its magnitude), "double" is n + 1/2.             *)
(* JSON objects are records with one field per key the parser reads, plus  *)
(* t: "object" for an object, "other" for any other value and "absent"     *)
(* for a member that is missing.  The top-level value is an object.        *)
(***************************************************************************)
EXTENDS Integers, Sequences, FiniteSets, TLC

VARIABLES doc, cl_args, pc, idx, has_jobs, has_shipments, amount_size,
          common_profile, matrix_size, input, result

vars == <<doc, cl_args, pc, idx, has_jobs, has_shipments, amount_size,
          common_profile, matrix_size, input, result>>

----------------------------------------------------------------------------
(* JSON values *)

Absent == [t |-> "absent", n |-> 0, s |-> "", a |-> <<>>]
Null == [t |-> "null", n |-> 0, s |-> "", a |-> <<>>]
U(k) == [t |-> "uint", n |-> k, s |-> "", a |-> <<>>]
U64(k) == [t |-> "uint64", n |-> k, s |-> "", a |-> <<>>]
NegInt(k) == [t |-> "int", n |-> k, s |-> "", a |-> <<>>]
Dbl(k) == [t |-> "double", n |-> k, s |-> "", a |-> <<>>]
Str(x) == [t |-> "string", n |-> 0, s |-> x, a |-> <<>>]
Arr(x) == [t |-> "array", n |-> 0, s |-> "", a |-> x]

HasMember(object, key) == object[key].t # "absent"
IsArray(v) == v.t = "array"
IsObject(v) == v.t = "object"
IsString(v) == v.t = "string"
IsUint(v) == v.t = "uint"
IsUint64(v) == v.t \in {"uint", "uint64"}
IsNumber(v) == v.t \in {"uint", "uint64", "int", "double"}
Size(v) == Len(v.a)
Empty(v) == Len(v.a) = 0
GetUint(v) == v.n

\* GetDouble: the number as a double; held as [big, x2] where x2 is twice
\* the value's offset (so that n + 1/2 is exact) and big says the offset is
\* taken from 2^32.
GetDouble(v) ==
    CASE v.t = "uint" -> [big |-> FALSE, x2 |-> 2 * v.n]
      [] v.t = "uint64" -> [big |-> TRUE, x2 |-> 2 * v.n]
      [] v.t = "int" -> [big |-> FALSE, x2 |-> 0 - 2 * v.n]
      [] OTHER -> [big |-> FALSE, x2 |-> 2 * v.n + 1]

----------------------------------------------------------------------------
(* Exceptions and the outcome of a helper *)

\* Exception(kind, message): the message is held by its fixed text (tag),
\* the key or entity type it names (subj), the id it prints (id, a JSON
\* number, Absent when it prints none) and the numbers it prints (n1, n2).
Exception(kind, tag, subj, id, n1, n2) ==
    [kind |-> kind, tag |-> tag, subj |-> subj, id |-> id, n1 |-> n1, n2 |-> n2]

InputError(tag, subj) == Exception("INPUT", tag, subj, Absent, 0, 0)
InputErrorId(tag, subj, id) == Exception("INPUT", tag, subj, id, 0, 0)

\* A helper's outcome: the exceptions it may throw (none if it returns) and
\* the values it may return.  More than one element means the C++ leaves
\* the choice open (unspecified evaluation order, unstable sort).
Returns(v) == [errs |-> {}, vals |-> {v}]
Throws(e) == [errs |-> {e}, vals |-> {}]
Failed(r) == r.errs # {}
Val(r) == CHOOSE v \in r.vals : TRUE

\* Statements executed one after the other: the first that throws decides.
RECURSIVE FirstThrow(_)
FirstThrow(rs) ==
    IF rs = <<>> THEN {}
    ELSE IF Failed(Head(rs)) THEN Head(rs).errs
    ELSE FirstThrow(Tail(rs))

\* Arguments of one call: their evaluations are indeterminately sequenced,
\* so the exception of any throwing argument may be the one that escapes.
AnyThrow(rs) == UNION {rs[k].errs : k \in DOMAIN rs}

----------------------------------------------------------------------------
(* Scalar extractors *)

parse_coordinates(object, key) ==
    LET v == object[key] IN
    IF ~IsArray(v) \/ Size(v) < 2 \/ ~IsNumber(v.a[1]) \/ ~IsNumber(v.a[2])
    THEN Throws(InputError("Invalid array", key))
    ELSE Returns(<<GetDouble(v.a[1]), GetDouble(v.a[2])>>)

get_string(object, key) ==
    IF HasMember(object, key)
    THEN IF ~IsString(object[key])
         THEN Throws(InputError("Invalid value", key))
         ELSE Returns(object[key].s)
    ELSE Returns("")

ZeroAmount(size) == [k \in 1..size |-> 0]

\* get_amount without the comparison of lines 62-67.
get_amount_any_length(object, key, size) ==
    LET v == object[key] IN
    IF HasMember(object, key)
    THEN IF ~IsArray(v)
         THEN Throws(InputError("Invalid array", key))
         ELSE IF \E k \in 1..Size(v) : ~IsUint(v.a[k])
         THEN Throws(InputError("Invalid value", key))
         ELSE Returns([k \in 1..Size(v) |-> GetUint(v.a[k])])
    ELSE Returns(ZeroAmount(size))

get_amount(object, key, size) ==
    LET v == object[key] IN
    IF HasMember(object, key)
    THEN IF ~IsArray(v)
         THEN Throws(InputError("Invalid array", key))
         ELSE IF Size(v) # size
         THEN Throws(Exception("INPUT", "Inconsistent length", key, Absent,
                               Size(v), size))
         ELSE IF \E k \in 1..Size(v) : ~IsUint(v.a[k])
         THEN Throws(InputError("Invalid value", key))
         ELSE Returns([k \in 1..Size(v) |-> GetUint(v.a[k])])
    ELSE Returns(ZeroAmount(size))

get_skills(object) ==
    LET v == object["skills"] IN
    IF HasMember(object, "skills")
    THEN IF ~IsArray(v)
         THEN Throws(InputError("Invalid skills object", "skills"))
         ELSE IF \E k \in 1..Size(v) : ~IsUint(v.a[k])
         THEN Throws(InputError("Invalid skill value", "skills"))
         ELSE Returns({GetUint(v.a[k]) : k \in 1..Size(v)})
    ELSE Returns({})

get_service(object) ==
    IF HasMember(object, "service")
    THEN IF ~IsUint(object["service"])
         THEN Throws(InputError("Invalid value", "service"))
         ELSE Returns(GetUint(object["service"]))
    ELSE Returns(0)

MAX_PRIORITY == 100

get_priority(object) ==
    IF HasMember(object, "priority")
    THEN IF ~IsUint(object["priority"])
         THEN Throws(InputError("Invalid value", "priority"))
         ELSE IF GetUint(object["priority"]) > MAX_PRIORITY
         THEN Throws(InputError("Invalid value", "priority"))
         ELSE Returns(GetUint(object["priority"]))
    ELSE Returns(0)

----------------------------------------------------------------------------
(* Structural validators: the set of exceptions thrown (empty: passes) *)

\* check_id that accepts an id of any type.
check_id_of_any_type(v, type) ==
    IF ~IsObject(v) THEN Throws(InputError("Invalid", type))
    ELSE IF ~HasMember(v, "id")
    THEN Throws(InputError("Invalid or missing id", type))
    ELSE Returns(TRUE)

check_id(v, type) ==
    IF ~IsObject(v) THEN Throws(InputError("Invalid", type))
    ELSE IF ~HasMember(v, "id") \/ ~IsUint64(v["id"])
    THEN Throws(InputError("Invalid or missing id", type))
    ELSE Returns(TRUE)

check_shipment(v) ==
    IF ~IsObject(v) THEN Throws(InputError("Invalid", "shipment"))
    ELSE IF ~HasMember(v, "pickup") \/ ~IsObject(v["pickup"])
    THEN Throws(InputError("Missing pickup", "shipment"))
    ELSE IF ~HasMember(v, "delivery") \/ ~IsObject(v["delivery"])
    THEN Throws(InputError("Missing delivery", "shipment"))
    ELSE Returns(TRUE)

\* check_location_index with < for <= at line 152.
check_location_index_off_by_one(v, type, msize) ==
    IF ~HasMember(v, "location_index") \/ ~IsUint(v["location_index"])
    THEN Throws(InputErrorId("Invalid location_index", type, v["id"]))
    ELSE IF msize < GetUint(v["location_index"])
    THEN Throws(InputErrorId("location_index exceeding matrix size", type,
                             v["id"]))
    ELSE Returns(TRUE)

check_location_index(v, type, msize) ==
    IF ~HasMember(v, "location_index") \/ ~IsUint(v["location_index"])
    THEN Throws(InputErrorId("Invalid location_index", type, v["id"]))
    ELSE IF msize <= GetUint(v["location_index"])
    THEN Throws(InputErrorId("location_index exceeding matrix size", type,
                             v["id"]))
    ELSE Returns(TRUE)

\* check_location that accepts a location of any type.
check_location_of_any_type(v, type) ==
    IF ~HasMember(v, "location")
    THEN Throws(InputErrorId("Invalid location", type, v["id"]))
    ELSE Returns(TRUE)

check_location(v, type) ==
    IF ~HasMember(v, "location") \/ ~IsArray(v["location"])
    THEN Throws(InputErrorId("Invalid location", type, v["id"]))
    ELSE Returns(TRUE)

----------------------------------------------------------------------------
(* Time windows *)

\* TimeWindow(start, end) and the default TimeWindow(): [0, max Duration].
\* MaxDuration stands for std::numeric_limits<Duration>::max(): above
\* every bound a document of the model states.
MaxDuration == 2147483647
TimeWindow(start, end) == [start |-> start, end |-> end]
DefaultTimeWindow == TimeWindow(0, MaxDuration)

\* operator< of TimeWindow: by start, then by end.
TimeWindowLess(x, y) ==
    x.start < y.start \/ (x.start = y.start /\ x.end < y.end)

get_time_window(tw) ==
    IF ~IsArray(tw) \/ Size(tw) < 2 \/ ~IsUint(tw.a[1]) \/ ~IsUint(tw.a[2])
    THEN Throws(InputError("Invalid time-window", ""))
    ELSE Returns(TimeWindow(GetUint(tw.a[1]), GetUint(tw.a[2])))

\* std::sort of a vector of TimeWindow with operator<: elements that
\* compare equivalent are equal, so the result is unique.
RECURSIVE InsertTW(_, _)
InsertTW(x, sorted) ==
    IF sorted = <<>> THEN <<x>>
    ELSE IF TimeWindowLess(x, Head(sorted)) THEN <<x>> \o sorted
    ELSE <<Head(sorted)>> \o InsertTW(x, Tail(sorted))

RECURSIVE SortTimeWindows(_)
SortTimeWindows(tws) ==
    IF tws = <<>> THEN <<>>
    ELSE InsertTW(Head(tws), SortTimeWindows(Tail(tws)))

\* TransformTimeWindows without the std::sort.
TransformTimeWindowsUnsorted(v) ==
    LET rs == [k \in 1..Size(v) |-> get_time_window(v.a[k])] IN
    IF FirstThrow(rs) # {} THEN [errs |-> FirstThrow(rs), vals |-> {}]
    ELSE Returns([k \in 1..Size(v) |-> Val(rs[k])])

\* std::transform(..., get_time_window) followed by std::sort: the first
\* element that is no time window throws.
TransformTimeWindows(v) ==
    LET rs == [k \in 1..Size(v) |-> get_time_window(v.a[k])] IN
    IF FirstThrow(rs) # {} THEN [errs |-> FirstThrow(rs), vals |-> {}]
    ELSE Returns(SortTimeWindows([k \in 1..Size(v) |-> Val(rs[k])]))

get_vehicle_time_window(v) ==
    IF HasMember(v, "time_window") THEN get_time_window(v["time_window"])
    ELSE Returns(DefaultTimeWindow)

get_job_time_windows(j) ==
    IF HasMember(j, "time_windows")
    THEN IF ~IsArray(j["time_windows"]) \/ Empty(j["time_windows"])
         THEN Throws(InputErrorId("Invalid time_windows array", "job", j["id"]))
         ELSE TransformTimeWindows(j["time_windows"])
    ELSE Returns(<<DefaultTimeWindow>>)

get_break_time_windows(b) ==
    IF ~HasMember(b, "time_windows") \/ ~IsArray(b["time_windows"])
       \/ Empty(b["time_windows"])
    THEN Throws(InputErrorId("Invalid time_windows array", "break", b["id"]))
    ELSE TransformTimeWindows(b["time_windows"])

----------------------------------------------------------------------------
(* Breaks and steps of a vehicle *)

get_break(b) ==
    LET tws == get_break_time_windows(b)
        service == get_service(b)
        description == get_string(b, "description")
        args == <<tws, service, description>>
    IN  IF Failed(check_id(b, "break")) THEN check_id(b, "break")
        ELSE IF AnyThrow(args) # {} THEN [errs |-> AnyThrow(args), vals |-> {}]
        ELSE Returns([id |-> b["id"], tws |-> Val(tws),
                      service |-> Val(service),
                      description |-> Val(description)])

\* The comparator of the std::sort in get_vehicle_breaks.
BreakLess(x, y) ==
    x.tws[1].start < y.tws[1].start
    \/ (x.tws[1].start = y.tws[1].start /\ x.tws[1].end < y.tws[1].end)

\* std::sort is not stable: every ordering of the breaks that the
\* comparator accepts as sorted may come out.
SortBreaks(breaks) ==
    IF breaks = <<>> THEN {<<>>}
    ELSE {[k \in 1..Len(breaks) |-> breaks[p[k]]] :
             p \in {q \in Permutations(1..Len(breaks)) :
                      \A x, y \in 1..Len(breaks) :
                         x < y => ~BreakLess(breaks[q[y]], breaks[q[x]])}}

get_vehicle_breaks(v) ==
    LET items == v["breaks"].a
        rs == [k \in 1..Len(items) |-> get_break(items[k])]
    IN  IF HasMember(v, "breaks")
        THEN IF ~IsArray(v["breaks"])
             THEN Throws(InputErrorId("Invalid breaks", "vehicle", v["id"]))
             ELSE IF FirstThrow(rs) # {}
             THEN [errs |-> FirstThrow(rs), vals |-> {}]
             ELSE [errs |-> {},
                   vals |-> SortBreaks([k \in 1..Len(items) |-> Val(rs[k])])]
        ELSE Returns(<<>>)

\* std::optional<Duration>
None == [some |-> FALSE, v |-> 0]
Some(x) == [some |-> TRUE, v |-> x]

OptionalDuration(json_step, key) ==
    IF HasMember(json_step, key)
    THEN IF ~IsUint(json_step[key])
         THEN Throws(InputError("Invalid value", key))
         ELSE Returns(Some(GetUint(json_step[key])))
    ELSE Returns(None)

\* One iteration of the loop of get_vehicle_steps.
VehicleStep(type, id, at, after, before) ==
    [type |-> type, id |-> id, at |-> at, after |-> after, before |-> before]

get_vehicle_step(json_step, v) ==
    LET at == OptionalDuration(json_step, "service_at")
        after == OptionalDuration(json_step, "service_after")
        before == OptionalDuration(json_step, "service_before")
        type_str == get_string(json_step, "type")
        pre == FirstThrow(<<at, after, before, type_str>>)
    IN  IF pre # {} THEN [errs |-> pre, vals |-> {}]
        ELSE IF Val(type_str) \in {"start", "end"}
        THEN Returns(VehicleStep(Val(type_str), Absent, Val(at), Val(after),
                                 Val(before)))
        ELSE IF ~HasMember(json_step, "id") \/ ~IsUint64(json_step["id"])
        THEN Throws(InputErrorId("Invalid id in steps", "vehicle", v["id"]))
        ELSE IF Val(type_str) \in {"job", "pickup", "delivery", "break"}
        THEN Returns(VehicleStep(Val(type_str), json_step["id"], Val(at),
                                 Val(after), Val(before)))
        ELSE Throws(InputErrorId("Invalid type in steps", "vehicle", v["id"]))

get_vehicle_steps(v) ==
    LET items == v["steps"].a
        rs == [k \in 1..Len(items) |-> get_vehicle_step(items[k], v)]
    IN  IF HasMember(v, "steps")
        THEN IF ~IsArray(v["steps"])
             THEN Throws(InputErrorId("Invalid steps", "vehicle", v["id"]))
             ELSE IF FirstThrow(rs) # {}
             THEN [errs |-> FirstThrow(rs), vals |-> {}]
             ELSE Returns([k \in 1..Len(items) |-> Val(rs[k])])
        ELSE Returns(<<>>)

----------------------------------------------------------------------------
(* Locations and vehicles *)

NoCoordinates == <<GetDouble(U(0)), GetDouble(U(0))>>

\* Location(index), Location(coordinates), Location({index, coordinates})
LocationIndex(index) ==
    [has_index |-> TRUE, index |-> index, has_coords |-> FALSE,
     coords |-> NoCoordinates]
LocationCoords(coords) ==
    [has_index |-> FALSE, index |-> 0, has_coords |-> TRUE, coords |-> coords]
LocationBoth(index, coords) ==
    [has_index |-> TRUE, index |-> index, has_coords |-> TRUE,
     coords |-> coords]

\* std::optional<Location>
NoLocation == [some |-> FALSE, loc |-> LocationIndex(0)]
SomeLocation(loc) == [some |-> TRUE, loc |-> loc]

\* VehicleLocation that leaves the coordinates out when there is an index.
VehicleLocationIndexOnly(json_vehicle, key, key_index, tag) ==
    LET has_coords == HasMember(json_vehicle, key)
        has_index == HasMember(json_vehicle, key_index)
        coords == parse_coordinates(json_vehicle, key)
    IN  IF has_index /\ ~IsUint(json_vehicle[key_index])
        THEN Throws(InputErrorId(tag, "vehicle", json_vehicle["id"]))
        ELSE IF has_index
        THEN Returns(SomeLocation(
               LocationIndex(GetUint(json_vehicle[key_index]))))
        ELSE IF has_coords
        THEN IF Failed(coords) THEN coords
             ELSE Returns(SomeLocation(LocationCoords(Val(coords))))
        ELSE Returns(NoLocation)

\* The start (or end) of a vehicle, from key_index and key: the check of
\* the index, then the optional location.
VehicleLocation(json_vehicle, key, key_index, tag) ==
    LET has_coords == HasMember(json_vehicle, key)
        has_index == HasMember(json_vehicle, key_index)
        coords == parse_coordinates(json_vehicle, key)
    IN  IF has_index /\ ~IsUint(json_vehicle[key_index])
        THEN Throws(InputErrorId(tag, "vehicle", json_vehicle["id"]))
        ELSE IF has_index
        THEN IF has_coords
             THEN IF Failed(coords) THEN coords
                  ELSE Returns(SomeLocation(
                         LocationBoth(GetUint(json_vehicle[key_index]),
                                      Val(coords))))
             ELSE Returns(SomeLocation(
                    LocationIndex(GetUint(json_vehicle[key_index]))))
        ELSE IF has_coords
        THEN IF Failed(coords) THEN coords
             ELSE Returns(SomeLocation(LocationCoords(Val(coords))))
        ELSE Returns(NoLocation)

get_vehicle(json_vehicle, size) ==
    LET id == check_id(json_vehicle, "vehicle")
        start == VehicleLocation(json_vehicle, "start", "start_index",
                                 "Invalid start_index")
        end == VehicleLocation(json_vehicle, "end", "end_index",
                               "Invalid end_index")
        capacity == get_amount(json_vehicle, "capacity", size)
        skills == get_skills(json_vehicle)
        tw == get_vehicle_time_window(json_vehicle)
        breaks == get_vehicle_breaks(json_vehicle)
        description == get_string(json_vehicle, "description")
        steps == get_vehicle_steps(json_vehicle)
        args == <<capacity, skills, tw, breaks, description, steps>>
    IN  IF Failed(id) THEN id
        ELSE IF Failed(start) THEN start
        ELSE IF Failed(end) THEN end
        ELSE IF AnyThrow(args) # {} THEN [errs |-> AnyThrow(args), vals |-> {}]
        ELSE [errs |-> {},
              vals |-> {[id |-> json_vehicle["id"], start |-> Val(start),
                         end |-> Val(end), capacity |-> Val(capacity),
                         skills |-> Val(skills), tw |-> Val(tw),
                         breaks |-> b, description |-> Val(description),
                         steps |-> Val(steps)] : b \in breaks.vals}]

----------------------------------------------------------------------------
(* Jobs and shipments, as parse builds them in its two branches *)

Job(id, type, location, service, delivery, pickup, skills, priority, tws, d) ==
    [id |-> id, type |-> type, location |-> location, service |-> service,
     delivery |-> delivery, pickup |-> pickup, skills |-> skills,
     priority |-> priority, tws |-> tws, description |-> d]

\* need_amount_compat that looks for the amount key only.
need_amount_compat_amount_only(json_job) ==
    HasMember(json_job, "amount")

\* Retro-compatibility of the deprecated amount key.
need_amount_compat(json_job) ==
    /\ HasMember(json_job, "amount")
    /\ ~HasMember(json_job, "delivery")
    /\ ~HasMember(json_job, "pickup")

\* The delivery argument of the Job constructor of a plain job.
JobDelivery(json_job, size) ==
    IF need_amount_compat(json_job)
    THEN get_amount(json_job, "amount", size)
    ELSE get_amount(json_job, "delivery", size)

\* The location argument in the matrix branch.
MatrixLocation(json) ==
    LET coords == parse_coordinates(json, "location") IN
    IF HasMember(json, "location")
    THEN IF Failed(coords) THEN coords
         ELSE Returns(LocationBoth(GetUint(json["location_index"]),
                                   Val(coords)))
    ELSE Returns(LocationIndex(GetUint(json["location_index"])))

\* The location argument in the routing branch.
RoutingLocation(json) ==
    LET coords == parse_coordinates(json, "location") IN
    IF Failed(coords) THEN coords ELSE Returns(LocationCoords(Val(coords)))

\* The Job constructor call of a plain job, given its location argument.
PlainJob(json_job, location, size) ==
    LET service == get_service(json_job)
        delivery == JobDelivery(json_job, size)
        pickup == get_amount(json_job, "pickup", size)
        skills == get_skills(json_job)
        priority == get_priority(json_job)
        tws == get_job_time_windows(json_job)
        description == get_string(json_job, "description")
        args == <<location, service, delivery, pickup, skills, priority, tws,
                  description>>
    IN  IF AnyThrow(args) # {} THEN [errs |-> AnyThrow(args), vals |-> {}]
        ELSE Returns(Job(json_job["id"], "single", Val(location),
                         Val(service), Val(delivery), Val(pickup),
                         Val(skills), Val(priority), Val(tws),
                         Val(description)))

\* The Job constructor call of one side of a shipment (type is
\* JOB_TYPE::PICKUP or JOB_TYPE::DELIVERY), which takes the shipment's
\* amount, skills and priority.
ShipmentJob(json, type, location, amount, skills, priority) ==
    LET service == get_service(json)
        tws == get_job_time_windows(json)
        description == get_string(json, "description")
        args == <<location, service, tws, description>>
    IN  IF AnyThrow(args) # {} THEN [errs |-> AnyThrow(args), vals |-> {}]
        ELSE Returns([id |-> json["id"], type |-> type,
                      location |-> Val(location), service |-> Val(service),
                      amount |-> amount, skills |-> skills,
                      priority |-> priority, tws |-> Val(tws),
                      description |-> Val(description)])

\* One iteration of the job loop of the matrix branch.
MatrixJob(json_job, size, msize) ==
    IF Failed(check_id(json_job, "job")) THEN check_id(json_job, "job")
    ELSE IF Failed(check_location_index(json_job, "job", msize))
    THEN check_location_index(json_job, "job", msize)
    ELSE PlainJob(json_job, MatrixLocation(json_job), size)

\* One iteration of the job loop of the routing branch.
RoutingJob(json_job, size) ==
    IF Failed(check_id(json_job, "job")) THEN check_id(json_job, "job")
    ELSE IF Failed(check_location(json_job, "job"))
    THEN check_location(json_job, "job")
    ELSE PlainJob(json_job, RoutingLocation(json_job), size)

\* One side of a shipment in the matrix branch.
MatrixShipmentJob(json, type, amount, skills, priority, msize) ==
    IF Failed(check_id(json, type)) THEN check_id(json, type)
    ELSE IF Failed(check_location_index(json, type, msize))
    THEN check_location_index(json, type, msize)
    ELSE ShipmentJob(json, type, MatrixLocation(json), amount, skills,
                     priority)

\* One side of a shipment in the routing branch.
RoutingShipmentJob(json, type, amount, skills, priority) ==
    IF Failed(check_id(json, type)) THEN check_id(json, type)
    ELSE IF Failed(check_location(json, type))
    THEN check_location(json, type)
    ELSE ShipmentJob(json, type, RoutingLocation(json), amount, skills,
                     priority)

\* The statements of a shipment before its two jobs.
ShipmentCommon(json_shipment, size) ==
    FirstThrow(<<check_shipment(json_shipment),
                 get_amount(json_shipment, "amount", size),
                 get_skills(json_shipment),
                 get_priority(json_shipment)>>)

\* One iteration of the shipment loop of the matrix branch.
MatrixShipment(json_shipment, size, msize) ==
    LET amount == Val(get_amount(json_shipment, "amount", size))
        skills == Val(get_skills(json_shipment))
        priority == Val(get_priority(json_shipment))
        pickup == MatrixShipmentJob(json_shipment["pickup"], "pickup", amount,
                                    skills, priority, msize)
        delivery == MatrixShipmentJob(json_shipment["delivery"], "delivery",
                                      amount, skills, priority, msize)
    IN  IF ShipmentCommon(json_shipment, size) # {}
        THEN [errs |-> ShipmentCommon(json_shipment, size), vals |-> {}]
        ELSE IF Failed(pickup) THEN pickup
        ELSE IF Failed(delivery) THEN delivery
        ELSE Returns([pickup |-> Val(pickup), delivery |-> Val(delivery)])

\* One iteration of the shipment loop of the routing branch.
RoutingShipment(json_shipment, size) ==
    LET amount == Val(get_amount(json_shipment, "amount", size))
        skills == Val(get_skills(json_shipment))
        priority == Val(get_priority(json_shipment))
        pickup == RoutingShipmentJob(json_shipment["pickup"], "pickup",
                                     amount, skills, priority)
        delivery == RoutingShipmentJob(json_shipment["delivery"], "delivery",
                                       amount, skills, priority)
    IN  IF ShipmentCommon(json_shipment, size) # {}
        THEN [errs |-> ShipmentCommon(json_shipment, size), vals |-> {}]
        ELSE IF Failed(pickup) THEN pickup
        ELSE IF Failed(delivery) THEN delivery
        ELSE Returns([pickup |-> Val(pickup), delivery |-> Val(delivery)])

----------------------------------------------------------------------------
(* The custom matrix *)

\* The first row (in row order) that is refused, 0 if none: a row is
\* examined whole, its shape and then its cells, before the next row.
RowRefused(row, msize) ==
    \/ ~IsArray(row)
    \/ Size(row) # msize
    \/ \E j \in 1..msize : ~IsUint(row.a[j])

FirstRefusedRow(m) ==
    IF \E i \in 1..Size(m) : RowRefused(m.a[i], Size(m))
    THEN CHOOSE i \in 1..Size(m) :
           /\ RowRefused(m.a[i], Size(m))
           /\ \A k \in 1..(i - 1) : ~RowRefused(m.a[k], Size(m))
    ELSE 0

\* load_matrix that compares the length of every row before it looks at
\* any cell.
load_matrix_lengths_first(m) ==
    LET msize == Size(m)
        short == {r \in 1..msize : ~IsArray(m.a[r]) \/ Size(m.a[r]) # msize}
        i == IF short # {} THEN CHOOSE r \in short : \A k \in short : r <= k
             ELSE FirstRefusedRow(m)
        row == m.a[i]
        j == CHOOSE c \in 1..msize :
               /\ ~IsUint(row.a[c])
               /\ \A k \in 1..(c - 1) : IsUint(row.a[k])
    IN  IF ~IsArray(m) THEN Throws(InputError("Invalid matrix", ""))
        ELSE IF i = 0
        THEN Returns([r \in 1..msize |->
                        [c \in 1..msize |-> GetUint(m.a[r].a[c])]])
        ELSE IF ~IsArray(row) \/ Size(row) # msize
        THEN Throws(Exception("INPUT", "Invalid matrix line", "", Absent,
                              i - 1, 0))
        ELSE Throws(Exception("INPUT", "Invalid matrix entry", "", Absent,
                              i - 1, j - 1))

\* Lines 466-490: the matrix as loaded, or the exception of the first
\* refused row.  Rows and columns are printed from 0.
load_matrix(m) ==
    LET msize == Size(m)
        i == FirstRefusedRow(m)
        row == m.a[i]
        j == CHOOSE c \in 1..msize :
               /\ ~IsUint(row.a[c])
               /\ \A k \in 1..(c - 1) : IsUint(row.a[k])
    IN  IF ~IsArray(m) THEN Throws(InputError("Invalid matrix", ""))
        ELSE IF i = 0
        THEN Returns([r \in 1..msize |->
                        [c \in 1..msize |-> GetUint(m.a[r].a[c])]])
        ELSE IF ~IsArray(row) \/ Size(row) # msize
        THEN Throws(Exception("INPUT", "Invalid matrix line", "", Absent,
                              i - 1, 0))
        ELSE Throws(Exception("INPUT", "Invalid matrix entry", "", Absent,
                              i - 1, j - 1))

----------------------------------------------------------------------------
(* The routing wrapper *)

DEFAULT_PROFILE == "car"

\* routing_wrapper that does not look the profile up in cl_args.servers.
routing_wrapper_without_lookup(args, profile) ==
    CASE args.router = "OSRM" ->
           Returns([kind |-> "OsrmRoutedWrapper", profile |-> profile])
      [] args.router = "LIBOSRM" ->
           IF ~args.use_libosrm
           THEN Throws(Exception("ROUTING", "compiled without libosrm", "",
                                 Absent, 0, 0))
           ELSE IF profile \notin args.libosrm_profiles
           THEN Throws(Exception("ROUTING", "Invalid profile", profile,
                                 Absent, 0, 0))
           ELSE Returns([kind |-> "LibosrmWrapper", profile |-> profile])
      [] OTHER ->
           Returns([kind |-> "OrsWrapper", profile |-> profile])

\* Lines 671-707: the wrapper built for the router of cl_args, or the
\* exception.  cl_args.servers holds the profiles that have a server;
\* cl_args.use_libosrm is the build flag USE_LIBOSRM and
\* cl_args.libosrm_profiles the profiles libosrm accepts.
routing_wrapper(args, profile) ==
    CASE args.router = "OSRM" ->
           IF profile \notin args.servers
           THEN Throws(InputError("Invalid profile", profile))
           ELSE Returns([kind |-> "OsrmRoutedWrapper", profile |-> profile])
      [] args.router = "LIBOSRM" ->
           IF ~args.use_libosrm
           THEN Throws(Exception("ROUTING", "compiled without libosrm", "",
                                 Absent, 0, 0))
           ELSE IF profile \notin args.libosrm_profiles
           THEN Throws(Exception("ROUTING", "Invalid profile", profile,
                                 Absent, 0, 0))
           ELSE Returns([kind |-> "LibosrmWrapper", profile |-> profile])
      [] OTHER ->
           IF profile \notin args.servers
           THEN Throws(InputError("Invalid profile", profile))
           ELSE Returns([kind |-> "OrsWrapper", profile |-> profile])

----------------------------------------------------------------------------
(* parse, statement by statement *)

NoException == Exception("", "", "", Absent, 0, 0)

\* Input(amount_size), before anything is added to it.
NewInput(size) ==
    [amount_size |-> size, geometry |-> FALSE, vehicles |-> <<>>,
     jobs |-> <<>>, shipments |-> <<>>,
     has_matrix |-> FALSE, matrix |-> <<>>,
     has_routing |-> FALSE,
     routing |-> [kind |-> "", profile |-> ""]]

Running == [status |-> "running", err |-> NoException, value |-> NewInput(0)]

\* An exception leaves parse: nothing is returned, and pc stays at the
\* statements that threw.
Throw(e) ==
    /\ pc' = pc
    /\ result' = [status |-> "thrown", err |-> e, value |-> NewInput(0)]

\* Where parse goes on after the vehicles and the matrix, after the jobs
\* and after the shipments: a loop whose has_ flag is false is skipped.
\* AfterSwitch that goes to the shipments first.
AfterSwitchShipmentsFirst(matrix_mode) ==
    IF has_shipments
    THEN (IF matrix_mode THEN "matrix_shipments" ELSE "routing_shipments")
    ELSE IF matrix_mode THEN "matrix_jobs" ELSE "routing_jobs"

AfterSwitch(matrix_mode) ==
    IF has_jobs THEN (IF matrix_mode THEN "matrix_jobs" ELSE "routing_jobs")
    ELSE IF matrix_mode THEN "matrix_shipments" ELSE "routing_shipments"

AfterJobs(matrix_mode) ==
    IF has_shipments
    THEN (IF matrix_mode THEN "matrix_shipments" ELSE "routing_shipments")
    ELSE "set_routing"

\* Lines 408-416.
ParseJson ==
    /\ pc = "parse_json"
    /\ result.status = "running"
    /\ IF doc.parse_error
       THEN /\ Throw(Exception("INPUT", "Parse error", "", Absent, 0,
                               doc.error_offset))
       ELSE /\ pc' = "check_jobs_shipments"
            /\ UNCHANGED result
    /\ UNCHANGED <<doc, cl_args, idx, has_jobs, has_shipments, amount_size,
                   common_profile, matrix_size, input>>

\* CheckJobsShipments that wants both the jobs and the shipments.
CheckJobsShipmentsBoth ==
    LET jobs == /\ HasMember(doc, "jobs") /\ IsArray(doc["jobs"])
                /\ ~Empty(doc["jobs"])
        shipments == /\ HasMember(doc, "shipments")
                     /\ IsArray(doc["shipments"])
                     /\ ~Empty(doc["shipments"])
    IN  /\ pc = "check_jobs_shipments"
        /\ result.status = "running"
        /\ has_jobs' = jobs
        /\ has_shipments' = shipments
        /\ IF ~jobs \/ ~shipments
           THEN Throw(InputError("Invalid jobs or shipments", ""))
           ELSE /\ pc' = "check_vehicles"
                /\ UNCHANGED result
        /\ UNCHANGED <<doc, cl_args, idx, amount_size, common_profile,
                       matrix_size, input>>

\* Lines 418-426.
CheckJobsShipments ==
    LET jobs == /\ HasMember(doc, "jobs") /\ IsArray(doc["jobs"])
                /\ ~Empty(doc["jobs"])
        shipments == /\ HasMember(doc, "shipments")
                     /\ IsArray(doc["shipments"])
                     /\ ~Empty(doc["shipments"])
    IN  /\ pc = "check_jobs_shipments"
        /\ result.status = "running"
        /\ has_jobs' = jobs
        /\ has_shipments' = shipments
        /\ IF ~jobs /\ ~shipments
           THEN Throw(InputError("Invalid jobs or shipments", ""))
           ELSE /\ pc' = "check_vehicles"
                /\ UNCHANGED result
        /\ UNCHANGED <<doc, cl_args, idx, amount_size, common_profile,
                       matrix_size, input>>

\* Lines 428-445.
CheckVehicles ==
    LET first_vehicle == doc["vehicles"].a[1]
        first_vehicle_has_capacity ==
            /\ HasMember(first_vehicle, "capacity")
            /\ IsArray(first_vehicle["capacity"])
            /\ Size(first_vehicle["capacity"]) > 0
        size == IF first_vehicle_has_capacity
                THEN Size(first_vehicle["capacity"]) ELSE 0
    IN  /\ pc = "check_vehicles"
        /\ result.status = "running"
        /\ IF ~HasMember(doc, "vehicles") \/ ~IsArray(doc["vehicles"])
              \/ Empty(doc["vehicles"])
           THEN /\ Throw(InputError("Invalid vehicles", ""))
                /\ UNCHANGED <<amount_size, input, idx>>
           ELSE IF Failed(check_id(first_vehicle, "vehicle"))
           THEN /\ \E e \in check_id(first_vehicle, "vehicle").errs : Throw(e)
                /\ UNCHANGED <<amount_size, input, idx>>
           ELSE /\ amount_size' = size
                /\ input' = [NewInput(size) EXCEPT
                               !.geometry = cl_args.geometry]
                /\ idx' = 1
                /\ pc' = "add_vehicles"
                /\ UNCHANGED result
        /\ UNCHANGED <<doc, cl_args, has_jobs, has_shipments, common_profile,
                       matrix_size>>

\* AddVehicle that takes the profile of every vehicle as the common one.
AddVehicleLastProfile ==
    LET json_vehicle == doc["vehicles"].a[idx]
        vehicle == get_vehicle(json_vehicle, amount_size)
        profile == get_string(json_vehicle, "profile")
        current_profile == IF Val(profile) = "" THEN DEFAULT_PROFILE
                           ELSE Val(profile)
    IN  /\ pc = "add_vehicles"
        /\ result.status = "running"
        /\ idx <= Size(doc["vehicles"])
        /\ IF Failed(vehicle)
           THEN /\ \E e \in vehicle.errs : Throw(e)
                /\ UNCHANGED <<input, common_profile, idx>>
           ELSE \E v \in vehicle.vals :
                  /\ input' = [input EXCEPT !.vehicles = Append(@, v)]
                  /\ IF Failed(profile)
                     THEN /\ \E e \in profile.errs : Throw(e)
                          /\ UNCHANGED <<common_profile, idx>>
                     ELSE /\ common_profile' = current_profile
                          /\ idx' = idx + 1
                          /\ pc' = IF idx = Size(doc["vehicles"])
                                   THEN "switch_input_type"
                                   ELSE "add_vehicles"
                          /\ UNCHANGED result
        /\ UNCHANGED <<doc, cl_args, has_jobs, has_shipments, amount_size,
                       matrix_size>>

\* Lines 448-462: one iteration of the loop.
AddVehicle ==
    LET json_vehicle == doc["vehicles"].a[idx]
        vehicle == get_vehicle(json_vehicle, amount_size)
        profile == get_string(json_vehicle, "profile")
        current_profile == IF Val(profile) = "" THEN DEFAULT_PROFILE
                           ELSE Val(profile)
    IN  /\ pc = "add_vehicles"
        /\ result.status = "running"
        /\ idx <= Size(doc["vehicles"])
        /\ IF Failed(vehicle)
           THEN /\ \E e \in vehicle.errs : Throw(e)
                /\ UNCHANGED <<input, common_profile, idx>>
           ELSE \E v \in vehicle.vals :
                  /\ input' = [input EXCEPT !.vehicles = Append(@, v)]
                  /\ IF Failed(profile)
                     THEN /\ \E e \in profile.errs : Throw(e)
                          /\ UNCHANGED <<common_profile, idx>>
                     ELSE /\ common_profile' =
                               IF common_profile = "" THEN current_profile
                               ELSE common_profile
                          /\ idx' = idx + 1
                          /\ pc' = IF idx = Size(doc["vehicles"])
                                   THEN "switch_input_type"
                                   ELSE "add_vehicles"
                          /\ UNCHANGED result
        /\ UNCHANGED <<doc, cl_args, has_jobs, has_shipments, amount_size,
                       matrix_size>>

\* Lines 465-491 and the else at 586: the matrix, if there is one.
SwitchInputType ==
    LET matrix == load_matrix(doc["matrix"]) IN
    /\ pc = "switch_input_type"
    /\ result.status = "running"
    /\ IF HasMember(doc, "matrix")
       THEN IF Failed(matrix)
            THEN /\ \E e \in matrix.errs : Throw(e)
                 /\ UNCHANGED <<matrix_size, input, idx>>
            ELSE /\ matrix_size' = Size(doc["matrix"])
                 /\ input' = [input EXCEPT !.has_matrix = TRUE,
                                           !.matrix = Val(matrix)]
                 /\ idx' = 1
                 /\ pc' = AfterSwitch(TRUE)
                 /\ UNCHANGED result
       ELSE /\ idx' = 1
            /\ pc' = AfterSwitch(FALSE)
            /\ UNCHANGED <<matrix_size, input, result>>
    /\ UNCHANGED <<doc, cl_args, has_jobs, has_shipments, amount_size,
                   common_profile>>

\* Lines 495-526: one iteration of the loop.
AddMatrixJob ==
    LET job == MatrixJob(doc["jobs"].a[idx], amount_size, matrix_size) IN
    /\ pc = "matrix_jobs"
    /\ result.status = "running"
    /\ idx <= Size(doc["jobs"])
    /\ IF Failed(job)
       THEN /\ \E e \in job.errs : Throw(e)
            /\ UNCHANGED <<input, idx>>
       ELSE /\ input' = [input EXCEPT !.jobs = Append(@, Val(job))]
            /\ idx' = IF idx = Size(doc["jobs"]) THEN 1 ELSE idx + 1
            /\ pc' = IF idx = Size(doc["jobs"]) THEN AfterJobs(TRUE)
                     ELSE "matrix_jobs"
            /\ UNCHANGED result
    /\ UNCHANGED <<doc, cl_args, has_jobs, has_shipments, amount_size,
                   common_profile, matrix_size>>

\* Lines 531-584: one iteration of the loop.
AddMatrixShipment ==
    LET shipment == MatrixShipment(doc["shipments"].a[idx], amount_size,
                                   matrix_size)
    IN  /\ pc = "matrix_shipments"
        /\ result.status = "running"
        /\ idx <= Size(doc["shipments"])
        /\ IF Failed(shipment)
           THEN /\ \E e \in shipment.errs : Throw(e)
                /\ UNCHANGED <<input, idx>>
           ELSE /\ input' = [input EXCEPT
                               !.shipments = Append(@, Val(shipment))]
                /\ idx' = IF idx = Size(doc["shipments"]) THEN 1 ELSE idx + 1
                /\ pc' = IF idx = Size(doc["shipments"]) THEN "set_routing"
                         ELSE "matrix_shipments"
                /\ UNCHANGED result
        /\ UNCHANGED <<doc, cl_args, has_jobs, has_shipments, amount_size,
                       common_profile, matrix_size>>

\* Lines 592-618: one iteration of the loop.
AddRoutingJob ==
    LET job == RoutingJob(doc["jobs"].a[idx], amount_size) IN
    /\ pc = "routing_jobs"
    /\ result.status = "running"
    /\ idx <= Size(doc["jobs"])
    /\ IF Failed(job)
       THEN /\ \E e \in job.errs : Throw(e)
            /\ UNCHANGED <<input, idx>>
       ELSE /\ input' = [input EXCEPT !.jobs = Append(@, Val(job))]
            /\ idx' = IF idx = Size(doc["jobs"]) THEN 1 ELSE idx + 1
            /\ pc' = IF idx = Size(doc["jobs"]) THEN AfterJobs(FALSE)
                     ELSE "routing_jobs"
            /\ UNCHANGED result
    /\ UNCHANGED <<doc, cl_args, has_jobs, has_shipments, amount_size,
                   common_profile, matrix_size>>

\* Lines 623-666: one iteration of the loop.
AddRoutingShipment ==
    LET shipment == RoutingShipment(doc["shipments"].a[idx], amount_size) IN
    /\ pc = "routing_shipments"
    /\ result.status = "running"
    /\ idx <= Size(doc["shipments"])
    /\ IF Failed(shipment)
       THEN /\ \E e \in shipment.errs : Throw(e)
            /\ UNCHANGED <<input, idx>>
       ELSE /\ input' = [input EXCEPT !.shipments = Append(@, Val(shipment))]
            /\ idx' = IF idx = Size(doc["shipments"]) THEN 1 ELSE idx + 1
            /\ pc' = IF idx = Size(doc["shipments"]) THEN "set_routing"
                     ELSE "routing_shipments"
            /\ UNCHANGED result
    /\ UNCHANGED <<doc, cl_args, has_jobs, has_shipments, amount_size,
                   common_profile, matrix_size>>

\* SetRouting that attaches no wrapper once a matrix is attached.
SetRoutingUnlessMatrix ==
    LET wrapper == routing_wrapper(cl_args, common_profile) IN
    /\ pc = "set_routing"
    /\ result.status = "running"
    /\ IF Failed(wrapper)
       THEN /\ \E e \in wrapper.errs : Throw(e)
            /\ UNCHANGED input
       ELSE /\ input' = IF input.has_matrix THEN input
                        ELSE [input EXCEPT !.has_routing = TRUE,
                                           !.routing = Val(wrapper)]
            /\ pc' = "return"
            /\ UNCHANGED result
    /\ UNCHANGED <<doc, cl_args, idx, has_jobs, has_shipments, amount_size,
                   common_profile, matrix_size>>

\* Lines 670-708.
SetRouting ==
    LET wrapper == routing_wrapper(cl_args, common_profile) IN
    /\ pc = "set_routing"
    /\ result.status = "running"
    /\ IF Failed(wrapper)
       THEN /\ \E e \in wrapper.errs : Throw(e)
            /\ UNCHANGED input
       ELSE /\ input' = [input EXCEPT !.has_routing = TRUE,
                                      !.routing = Val(wrapper)]
            /\ pc' = "return"
            /\ UNCHANGED result
    /\ UNCHANGED <<doc, cl_args, idx, has_jobs, has_shipments, amount_size,
                   common_profile, matrix_size>>

\* Line 710.
Return ==
    /\ pc = "return"
    /\ result.status = "running"
    /\ pc' = "done"
    /\ result' = [status |-> "returned", err |-> NoException, value |-> input]
    /\ UNCHANGED <<doc, cl_args, idx, has_jobs, has_shipments, amount_size,
                   common_profile, matrix_size, input>>

Next ==
    \/ ParseJson
    \/ CheckJobsShipments
    \/ CheckVehicles
    \/ AddVehicle
    \/ SwitchInputType
    \/ AddMatrixJob
    \/ AddMatrixShipment
    \/ AddRoutingJob
    \/ AddRoutingShipment
    \/ SetRouting
    \/ Return

----------------------------------------------------------------------------
(* The documents and configurations parse is run on *)

\* Bounds of the documents.
MaxAmountSize == 2
MaxMatrixSize == 2
MaxTime == 1
MaxWindows == 2

Coordinates == Arr(<<Dbl(2), U(48)>>)

BaseJob ==
    [t |-> "object", id |-> U(1), location |-> Coordinates,
     location_index |-> U(0), service |-> Absent, amount |-> Absent,
     delivery |-> Absent, pickup |-> Absent, skills |-> Absent,
     priority |-> Absent, time_windows |-> Absent, description |-> Absent]

BaseShipment ==
    [t |-> "object", pickup |-> [BaseJob EXCEPT !.id = U(2)],
     delivery |-> [BaseJob EXCEPT !.id = U(3)], amount |-> Absent,
     skills |-> Absent, priority |-> Absent]

BaseBreak ==
    [t |-> "object", id |-> U(1),
     time_windows |-> Arr(<<Arr(<<U(0), U(1)>>)>>), service |-> Absent,
     description |-> Absent]

BaseStep ==
    [t |-> "object", type |-> Str("start"), id |-> Absent,
     service_at |-> Absent, service_after |-> Absent,
     service_before |-> Absent]

BaseVehicle ==
    [t |-> "object", id |-> U(1), start |-> Absent, start_index |-> Absent,
     end |-> Absent, end_index |-> Absent, capacity |-> Absent,
     skills |-> Absent, time_window |-> Absent, breaks |-> Absent,
     description |-> Absent, steps |-> Absent, profile |-> Absent]

\* A square matrix of size k.
SquareMatrix(k) ==
    Arr([i \in 1..k |-> Arr([j \in 1..k |-> U(IF i = j THEN 0 ELSE 5)])])

BaseDoc ==
    [parse_error |-> FALSE, error_offset |-> 0, jobs |-> Arr(<<BaseJob>>),
     shipments |-> Arr(<<BaseShipment>>), vehicles |-> Arr(<<BaseVehicle>>),
     matrix |-> Absent]

BaseArgs ==
    [router |-> "OSRM", servers |-> {"car"}, geometry |-> FALSE,
     use_libosrm |-> TRUE, libosrm_profiles |-> {"car"}]

Run(d, args) == [doc |-> d, args |-> args]

\* No matrix, or a matrix of each size.
Modes == {Absent} \cup {SquareMatrix(k) : k \in 0..MaxMatrixSize}

\* Values of a key that holds an amount: missing, no array, k times the
\* number x, or an array with a negative number in it.
AmountValues(x) ==
    {Absent, Null, Arr(<<NegInt(1)>>)}
    \cup {Arr([k \in 1..size |-> U(x)]) : size \in 0..MaxAmountSize}

\* Values of an id key.
IdValues == {Absent, U(1), U64(0), NegInt(1), Dbl(1), Str("1")}

\* Values of a location key.
LocationValues ==
    {Absent, Null, Arr(<<>>), Arr(<<U(2)>>), Coordinates,
     Arr(<<U(2), Str("x")>>)}

\* Values of a location_index, start_index or end_index key.
IndexValues ==
    {Absent, Null, NegInt(1), U64(0)} \cup {U(k) : k \in 0..MaxMatrixSize}

\* The top-level members.
TopRuns ==
    {Run([BaseDoc EXCEPT !.jobs = j, !.shipments = s, !.vehicles = v,
                         !.matrix = m], a) :
       j \in {Absent, Null, Arr(<<>>), Arr(<<BaseJob>>),
              Arr(<<BaseJob, [BaseJob EXCEPT !.id = U(2)]>>)},
       s \in {Absent, Null, Arr(<<>>), Arr(<<BaseShipment>>),
              Arr(<<BaseShipment, BaseShipment>>)},
       v \in {Absent, Null, Arr(<<>>), Arr(<<BaseVehicle>>),
              Arr(<<[BaseVehicle EXCEPT !.t = "other"]>>),
              Arr(<<BaseVehicle, [BaseVehicle EXCEPT !.id = Absent]>>)},
       m \in Modes \cup {Null, Arr(<<Arr(<<U(0), U(1)>>), Null>>),
                         Arr(<<Arr(<<NegInt(1)>>)>>)},
       a \in {BaseArgs, [BaseArgs EXCEPT !.servers = {}],
              [BaseArgs EXCEPT !.router = "LIBOSRM",
                               !.use_libosrm = FALSE]}}
    \cup {Run([BaseDoc EXCEPT !.parse_error = TRUE, !.error_offset = k,
                              !.jobs = j], BaseArgs) :
            k \in 0..1, j \in {Absent, Arr(<<BaseJob>>)}}

\* The amount keys of a job, under each dimension the first vehicle fixes.
JobAmountRuns ==
    {Run([BaseDoc EXCEPT
            !.vehicles = Arr(<<[BaseVehicle EXCEPT !.capacity = c]>>),
            !.jobs = Arr(<<[BaseJob EXCEPT !.amount = a, !.delivery = d,
                                           !.pickup = p]>>),
            !.matrix = m], BaseArgs) :
       c \in AmountValues(9), a \in AmountValues(1), d \in AmountValues(2),
       p \in AmountValues(3), m \in {Absent, SquareMatrix(1)}}

\* The capacity of a second vehicle and the amount of a shipment.
OtherAmountRuns ==
    {Run([BaseDoc EXCEPT
            !.vehicles = Arr(<<[BaseVehicle EXCEPT !.capacity = c],
                               [BaseVehicle EXCEPT !.id = U(2),
                                                   !.capacity = c2]>>),
            !.shipments = Arr(<<[BaseShipment EXCEPT !.amount = a]>>),
            !.matrix = m], BaseArgs) :
       c \in AmountValues(9), c2 \in AmountValues(8), a \in AmountValues(1),
       m \in {Absent, SquareMatrix(1)}}

\* The id and the location keys of a job, of a pickup and of a delivery.
JobLocationRuns ==
    {Run([BaseDoc EXCEPT
            !.jobs = Arr(<<[BaseJob EXCEPT !.id = i, !.location = l,
                                           !.location_index = x]>>),
            !.matrix = m], BaseArgs) :
       i \in IdValues, l \in LocationValues, x \in IndexValues, m \in Modes}

PickupLocationRuns ==
    {Run([BaseDoc EXCEPT
            !.shipments = Arr(<<[BaseShipment EXCEPT
                                   !.pickup.id = i, !.pickup.location = l,
                                   !.pickup.location_index = x]>>),
            !.matrix = m], BaseArgs) :
       i \in IdValues, l \in LocationValues, x \in IndexValues, m \in Modes}

DeliveryLocationRuns ==
    {Run([BaseDoc EXCEPT
            !.shipments = Arr(<<[BaseShipment EXCEPT
                                   !.delivery.id = i, !.delivery.location = l,
                                   !.delivery.location_index = x]>>),
            !.matrix = m], BaseArgs) :
       i \in IdValues, l \in LocationValues, x \in IndexValues, m \in Modes}

\* The start and the end of a vehicle.
VehicleLocationRuns ==
    {Run([BaseDoc EXCEPT
            !.vehicles = Arr(<<[BaseVehicle EXCEPT
                                  !.start = s, !.start_index = sx,
                                  !.end = e, !.end_index = ex]>>),
            !.matrix = m], BaseArgs) :
       s \in LocationValues, sx \in IndexValues, e \in LocationValues,
       ex \in IndexValues, m \in {Absent, SquareMatrix(1)}}

\* The profiles of two vehicles under each configuration of the router.
ProfileValues == {Absent, Null, Str(""), Str("car"), Str("bike")}

RouterArgs ==
    {[BaseArgs EXCEPT !.router = r, !.servers = p, !.geometry = g] :
       r \in {"OSRM", "ORS"}, p \in {{}, {"car"}, {"bike"}},
       g \in BOOLEAN}
    \cup {[BaseArgs EXCEPT !.router = "LIBOSRM", !.use_libosrm = u,
                           !.libosrm_profiles = p] :
            u \in BOOLEAN, p \in {{}, {"car"}, {"bike"}}}

ProfileRuns ==
    {Run([BaseDoc EXCEPT
            !.vehicles = Arr(<<[BaseVehicle EXCEPT !.profile = p1],
                               [BaseVehicle EXCEPT !.id = U(2),
                                                   !.profile = p2]>>),
            !.matrix = m], a) :
       p1 \in ProfileValues, p2 \in ProfileValues, a \in RouterArgs,
       m \in {Absent, SquareMatrix(1)}}

\* Values of a time_windows key: missing, no array, empty, with an element
\* that is no time window, with a window of three numbers, and every
\* sequence of up to MaxWindows windows with bounds up to MaxTime (start
\* above end included).
Windows == {Arr(<<U(start), U(end)>>) : start, end \in 0..MaxTime}

WindowSeqs == UNION {[1..n -> Windows] : n \in 1..MaxWindows}

TimeWindowsValues ==
    {Absent, Null, Arr(<<>>), Arr(<<Arr(<<U(0), U(1)>>), Arr(<<U(0)>>)>>),
     Arr(<<Arr(<<U(1), U(1), U(0)>>), Arr(<<U(0), NegInt(1)>>)>>),
     Arr(<<Arr(<<U(1), U(1), U(0)>>), Arr(<<U(0), U(1), Null>>)>>)}
    \cup {Arr(ws) : ws \in WindowSeqs}

\* The time windows of a job, of a pickup and of a delivery.
JobWindowRuns ==
    {Run([BaseDoc EXCEPT
            !.jobs = Arr(<<[BaseJob EXCEPT !.time_windows = tws]>>),
            !.matrix = m], BaseArgs) :
       tws \in TimeWindowsValues, m \in {Absent, SquareMatrix(1)}}

PickupWindowRuns ==
    {Run([BaseDoc EXCEPT
            !.shipments = Arr(<<[BaseShipment EXCEPT
                                   !.pickup.time_windows = tws]>>),
            !.matrix = m], BaseArgs) :
       tws \in TimeWindowsValues, m \in {Absent, SquareMatrix(1)}}

DeliveryWindowRuns ==
    {Run([BaseDoc EXCEPT
            !.shipments = Arr(<<[BaseShipment EXCEPT
                                   !.delivery.time_windows = tws]>>),
            !.matrix = m], BaseArgs) :
       tws \in TimeWindowsValues, m \in {Absent, SquareMatrix(1)}}

\* Two breaks of a vehicle: the first with one window, the second with
\* each value of the time_windows key.
BreakWindowRuns ==
    {Run([BaseDoc EXCEPT
            !.vehicles = Arr(<<[BaseVehicle EXCEPT
                !.breaks = Arr(<<[BaseBreak EXCEPT
                                    !.time_windows = Arr(<<w>>)],
                                 [BaseBreak EXCEPT
                                    !.id = U(2),
                                    !.time_windows = tws]>>)]>>)],
         BaseArgs) :
       w \in Windows, tws \in TimeWindowsValues}

\* One break of a vehicle: its id beside its other keys, and what is no
\* object; the breaks key itself.
BreakValues ==
    {[BaseBreak EXCEPT !.id = i, !.time_windows = tws, !.service = sv] :
       i \in IdValues,
       tws \in {Absent, Null, Arr(<<>>), Arr(<<Null>>),
                Arr(<<Arr(<<U(0), U(1)>>)>>)},
       sv \in {Absent, Null, U(1)}}
    \cup {[BaseBreak EXCEPT !.t = "other"]}

BreakRuns ==
    {Run([BaseDoc EXCEPT
            !.vehicles = Arr(<<[BaseVehicle EXCEPT !.breaks = Arr(<<b>>),
                                                   !.capacity = c]>>)],
         BaseArgs) :
       b \in BreakValues, c \in {Absent, Null}}
    \cup {Run([BaseDoc EXCEPT
                 !.vehicles = Arr(<<[BaseVehicle EXCEPT !.breaks = bs]>>)],
              BaseArgs) :
            bs \in {Null, Arr(<<>>)}}

\* Jobs, shipments and vehicles that are no objects, or that have a bad id
\* beside another bad key.
EntityRuns ==
    {Run([BaseDoc EXCEPT !.jobs = Arr(<<BaseJob, j>>),
                         !.shipments = Arr(<<BaseShipment, sh>>),
                         !.vehicles = Arr(<<BaseVehicle, v>>),
                         !.matrix = m], BaseArgs) :
       j \in {[BaseJob EXCEPT !.id = U(4)], [BaseJob EXCEPT !.t = "other"],
              [BaseJob EXCEPT !.id = Null, !.service = Null]},
       sh \in {[BaseShipment EXCEPT !.pickup.id = U(5),
                                    !.delivery.id = U(6)],
               [BaseShipment EXCEPT !.t = "other"],
               [BaseShipment EXCEPT !.pickup.t = "other"],
               [BaseShipment EXCEPT !.delivery.t = "other"],
               [BaseShipment EXCEPT !.pickup.id = Null,
                                    !.pickup.service = Null],
               [BaseShipment EXCEPT !.delivery.id = Null,
                                    !.delivery.service = Null,
                                    !.pickup.id = Absent],
               [BaseShipment EXCEPT !.delivery.id = Null,
                                    !.delivery.service = Null]},
       v \in {[BaseVehicle EXCEPT !.id = U(2)],
              [BaseVehicle EXCEPT !.id = Str("2"), !.start_index = Null,
                                  !.capacity = Null]},
       m \in {Absent, SquareMatrix(1)}}

\* The matrix: every array of up to MaxMatrixSize rows, a row being no
\* array or an array of up to MaxMatrixSize cells, a cell an unsigned or
\* a negative integer; and some matrices with cells of other types.
Cells == {U(1), NegInt(1)}

Rows ==
    {Null} \cup {Arr(r) : r \in UNION {[1..n -> Cells] : n \in 0..MaxMatrixSize}}

MatrixValues ==
    {Arr(m) : m \in UNION {[1..n -> Rows] : n \in 0..MaxMatrixSize}}
    \cup {Null, Str("m"),
          Arr(<<Arr(<<U64(0), NegInt(1)>>), Arr(<<U(0), U(0)>>)>>),
          Arr(<<Arr(<<U(0), U(7)>>), Arr(<<U(3), Dbl(1)>>)>>),
          Arr(<<Arr(<<U(0), U(7)>>), Arr(<<U(3), U(0)>>)>>),
          Arr(<<Arr(<<Str("1")>>)>>)}

MatrixRuns == {Run([BaseDoc EXCEPT !.matrix = m], BaseArgs) : m \in MatrixValues}

InputSpace ==
    TopRuns \cup JobAmountRuns \cup OtherAmountRuns \cup JobLocationRuns
    \cup PickupLocationRuns \cup DeliveryLocationRuns
    \cup VehicleLocationRuns \cup ProfileRuns \cup JobWindowRuns
    \cup PickupWindowRuns \cup DeliveryWindowRuns \cup BreakWindowRuns
    \cup BreakRuns \cup EntityRuns \cup MatrixRuns

Init ==
    \E r \in InputSpace :
      /\ doc = r.doc
      /\ cl_args = r.args
      /\ pc = "parse_json"
      /\ idx = 1
      /\ has_jobs = FALSE
      /\ has_shipments = FALSE
      /\ amount_size = 0
      /\ common_profile = ""
      /\ matrix_size = 0
      /\ input = NewInput(0)
      /\ result = Running

Spec == Init /\ [][Next]_vars

----------------------------------------------------------------------------
(* Where a run is *)

Rank(p) ==
    CASE p = "parse_json" -> 1
      [] p = "check_jobs_shipments" -> 2
      [] p = "check_vehicles" -> 3
      [] p = "add_vehicles" -> 4
      [] p = "switch_input_type" -> 5
      [] p \in {"matrix_jobs", "routing_jobs"} -> 6
      [] p \in {"matrix_shipments", "routing_shipments"} -> 7
      [] p = "set_routing" -> 8
      [] p = "return" -> 9
      [] OTHER -> 10

Thrown == result.status = "thrown"
Returned == result.status = "returned"

\* The document's own answer to has_jobs and has_shipments.
DocHasJobs == IsArray(doc["jobs"]) /\ Size(doc["jobs"]) > 0
DocHasShipments == IsArray(doc["shipments"]) /\ Size(doc["shipments"]) > 0
MatrixMode == HasMember(doc, "matrix")

VehicleAt(i) == doc["vehicles"].a[i]
JobAt(i) == doc["jobs"].a[i]
ShipmentAt(i) == doc["shipments"].a[i]

\* parse threw while it was at vehicle, job or shipment i.
ThrownAtVehicle(i) == Thrown /\ pc = "add_vehicles" /\ idx = i
ThrownAtJob(i) == Thrown /\ Rank(pc) = 6 /\ idx = i
ThrownAtShipment(i) == Thrown /\ Rank(pc) = 7 /\ idx = i

\* parse has built vehicle, job or shipment i and gone on.
VehicleBuilt(i) ==
    /\ Rank(pc) >= 4
    /\ i \in 1..Size(doc["vehicles"])
    /\ Rank(pc) = 4 => i < idx
JobBuilt(i) ==
    /\ Rank(pc) >= 6
    /\ DocHasJobs
    /\ i \in 1..Size(doc["jobs"])
    /\ Rank(pc) = 6 => i < idx
ShipmentBuilt(i) ==
    /\ Rank(pc) >= 7
    /\ DocHasShipments
    /\ i \in 1..Size(doc["shipments"])
    /\ Rank(pc) = 7 => i < idx

\* The indices a document of the model may hold in one array.
Indices == 1..4

----------------------------------------------------------------------------
(* C1: amounts of the wrong length *)

\* The dimensionality the first vehicle's capacity fixes.
Dimension ==
    LET capacity == VehicleAt(1)["capacity"] IN
    IF IsArray(capacity) /\ Size(capacity) > 0 THEN Size(capacity) ELSE 0

\* The key of the object is an array whose length is not the dimension.
Mismatched(object, key) ==
    IsArray(object[key]) /\ Size(object[key]) # Dimension

LengthError(object, key) ==
    Exception("INPUT", "Inconsistent length", key, Absent, Size(object[key]),
              Dimension)

\* The amount keys of a plain job that parse reads: amount only when the
\* job has neither delivery nor pickup.
JobKeysRead(json_job) ==
    {"delivery", "pickup"}
    \cup (IF HasMember(json_job, "delivery") \/ HasMember(json_job, "pickup")
          THEN {} ELSE {"amount"})

\* The job built in the branch the document selects.
BuildJob(json_job) ==
    IF MatrixMode THEN MatrixJob(json_job, Dimension, Size(doc["matrix"]))
    ELSE RoutingJob(json_job, Dimension)

\* C1 as claimed, in its weakest reading: parse returns no aggregate for a
\* document in which any capacity, delivery, pickup or amount is an array
\* of the wrong length.
C1_AnyAmountKeyChecked ==
    Returned =>
      /\ \A i \in 1..Size(doc["vehicles"]) :
           ~Mismatched(VehicleAt(i), "capacity")
      /\ DocHasJobs =>
           \A i \in 1..Size(doc["jobs"]) :
             \A key \in {"delivery", "pickup", "amount"} :
               ~Mismatched(JobAt(i), key)
      /\ DocHasShipments =>
           \A i \in 1..Size(doc["shipments"]) :
             ~Mismatched(ShipmentAt(i), "amount")

\* C1 (amended): no vehicle, job or shipment is built from a capacity,
\* delivery, pickup, shipment amount, or job amount without delivery and
\* pickup beside it, that is an array of the wrong length, so parse never
\* returns an aggregate for such a document; an "Inconsistent length"
\* error cites the length of the key it names and the dimension, which
\* differ; and it is the error thrown whenever the wrong length is the
\* only fault of the vehicle, job or shipment parse is at.
C1_ReadAmountKeysChecked ==
    /\ \A i \in Indices :
         /\ VehicleBuilt(i) => ~Mismatched(VehicleAt(i), "capacity")
         /\ JobBuilt(i) =>
              \A key \in JobKeysRead(JobAt(i)) : ~Mismatched(JobAt(i), key)
         /\ ShipmentBuilt(i) => ~Mismatched(ShipmentAt(i), "amount")
    /\ (Thrown /\ result.err.tag = "Inconsistent length") =>
         /\ result.err.kind = "INPUT"
         /\ result.err.n1 # result.err.n2
         /\ \/ /\ pc = "add_vehicles"
               /\ result.err = LengthError(VehicleAt(idx), "capacity")
            \/ /\ Rank(pc) = 6
               /\ result.err.subj \in JobKeysRead(JobAt(idx))
               /\ result.err = LengthError(JobAt(idx), result.err.subj)
            \/ /\ Rank(pc) = 7
               /\ result.err = LengthError(ShipmentAt(idx), "amount")
    /\ \A i \in Indices :
         /\ ( /\ ThrownAtVehicle(i)
              /\ Mismatched(VehicleAt(i), "capacity")
              /\ ~Failed(get_vehicle([VehicleAt(i) EXCEPT !.capacity = Absent],
                                     Dimension)) )
            => result.err = LengthError(VehicleAt(i), "capacity")
         /\ \A key \in {"delivery", "pickup", "amount"} :
              ( /\ ThrownAtJob(i)
                /\ key \in JobKeysRead(JobAt(i))
                /\ Mismatched(JobAt(i), key)
                /\ ~Failed(BuildJob([JobAt(i) EXCEPT ![key] =
                                       Arr([k \in 1..Dimension |-> U(0)])])) )
              => result.err = LengthError(JobAt(i), key)
         /\ ( /\ ThrownAtShipment(i)
              /\ ~Failed(check_shipment(ShipmentAt(i)))
              /\ Mismatched(ShipmentAt(i), "amount") )
            => result.err = LengthError(ShipmentAt(i), "amount")

\* A job whose amount, with neither delivery nor pickup beside it, has the
\* wrong length, was refused with the error that cites both lengths.
C1_Witness ==
    /\ ThrownAtJob(1)
    /\ need_amount_compat(JobAt(1))
    /\ Mismatched(JobAt(1), "amount")
    /\ result.err = LengthError(JobAt(1), "amount")
    /\ result.err.n1 = 1
    /\ result.err.n2 = 2

----------------------------------------------------------------------------
(* C2: location_index in matrix mode *)

MatrixSize == Size(doc["matrix"])

\* The id parse prints for a job, a pickup or a delivery.
ValidId(json) == IsObject(json) /\ json["id"].t \in {"uint", "uint64"}

\* The location_index is missing or is no index at all; one that does not
\* fit 32 unsigned bits is no index either.
NoIndex(json) == json["location_index"].t # "uint"

\* The location_index is an index and exceeds the matrix.
IndexExceeds(json) ==
    json["location_index"].t = "uint"
    /\ json["location_index"].n >= MatrixSize

IndexError(json, type) ==
    IF NoIndex(json)
    THEN InputErrorId("Invalid location_index", type, json["id"])
    ELSE InputErrorId("location_index exceeding matrix size", type,
                      json["id"])

IndexTags == {"Invalid location_index", "location_index exceeding matrix size"}

\* One side of shipment i as parse builds it in the branch of the document.
BuildSide(i, side) ==
    IF MatrixMode
    THEN MatrixShipmentJob(ShipmentAt(i)[side], side, <<>>, {}, 0, MatrixSize)
    ELSE RoutingShipmentJob(ShipmentAt(i)[side], side, <<>>, {}, 0)

\* parse read what the two sides of shipment i share and threw at the
\* pickup; or built the pickup and threw at the delivery.
ThrownAtPickup(i) ==
    /\ ThrownAtShipment(i)
    /\ ShipmentCommon(ShipmentAt(i), Dimension) = {}
    /\ Failed(BuildSide(i, "pickup"))

ThrownAtDelivery(i) ==
    /\ ThrownAtShipment(i)
    /\ ShipmentCommon(ShipmentAt(i), Dimension) = {}
    /\ ~Failed(BuildSide(i, "pickup"))

\* C2: in matrix mode, no job, pickup or delivery is built unless its
\* location_index is an index below the matrix size; when parse comes to
\* one whose id is valid and whose location_index is missing, no index or
\* not below the matrix size, it throws the INPUT error that names the
\* entity type and the id and tells the two cases apart; and it throws no
\* such error for an index below the matrix size.
C2_LocationIndexChecked ==
    MatrixMode =>
      \A i \in Indices :
        /\ JobBuilt(i) => ~NoIndex(JobAt(i)) /\ ~IndexExceeds(JobAt(i))
        /\ ShipmentBuilt(i) =>
             \A side \in {"pickup", "delivery"} :
               /\ ~NoIndex(ShipmentAt(i)[side])
               /\ ~IndexExceeds(ShipmentAt(i)[side])
        /\ (ThrownAtJob(i) /\ ValidId(JobAt(i))) =>
             /\ (NoIndex(JobAt(i)) \/ IndexExceeds(JobAt(i)))
                  => result.err = IndexError(JobAt(i), "job")
             /\ ~(NoIndex(JobAt(i)) \/ IndexExceeds(JobAt(i)))
                  => result.err.tag \notin IndexTags
        /\ (ThrownAtPickup(i) /\ ValidId(ShipmentAt(i)["pickup"])) =>
             LET json == ShipmentAt(i)["pickup"] IN
             /\ (NoIndex(json) \/ IndexExceeds(json))
                  => result.err = IndexError(json, "pickup")
             /\ ~(NoIndex(json) \/ IndexExceeds(json))
                  => result.err.tag \notin IndexTags
        /\ (ThrownAtDelivery(i) /\ ValidId(ShipmentAt(i)["delivery"])) =>
             LET json == ShipmentAt(i)["delivery"] IN
             /\ (NoIndex(json) \/ IndexExceeds(json))
                  => result.err = IndexError(json, "delivery")
             /\ ~(NoIndex(json) \/ IndexExceeds(json))
                  => result.err.tag \notin IndexTags

\* A delivery whose location_index is the matrix size was refused, after
\* its pickup was built.
C2_Witness ==
    /\ MatrixMode
    /\ MatrixSize = 2
    /\ ThrownAtDelivery(1)
    /\ ShipmentAt(1)["delivery"]["location_index"] = U(2)
    /\ result.err = InputErrorId("location_index exceeding matrix size",
                                 "delivery", U(1))

----------------------------------------------------------------------------
(* C3: indices of a returned aggregate in matrix mode *)

\* The locations of an aggregate that carry a matrix index.
IndexedLocations(agg) ==
    {agg.vehicles[i].start.loc : i \in {k \in 1..Len(agg.vehicles) :
                                         agg.vehicles[k].start.some}}
    \cup {agg.vehicles[i].end.loc : i \in {k \in 1..Len(agg.vehicles) :
                                            agg.vehicles[k].end.some}}
    \cup {agg.jobs[i].location : i \in 1..Len(agg.jobs)}
    \cup {agg.shipments[i].pickup.location : i \in 1..Len(agg.shipments)}
    \cup {agg.shipments[i].delivery.location : i \in 1..Len(agg.shipments)}

\* C3: in every aggregate parse returns in matrix mode, every location
\* that carries a matrix index (of a job, a pickup, a delivery, the start
\* or the end of a vehicle) has an index below the matrix size.
C3_IndicesBelowMatrixSize ==
    (Returned /\ MatrixMode) =>
      \A loc \in IndexedLocations(result.value) :
        loc.has_index => loc.index < Len(result.value.matrix)

----------------------------------------------------------------------------
(* C4: matrix and routing wrapper of a returned aggregate *)

\* C4 as claimed: a returned aggregate holds the matrix or the routing
\* wrapper, never both and never neither.
C4_ExactlyOneOfMatrixAndRouting ==
    Returned => (result.value.has_matrix # result.value.has_routing)

WrapperKind ==
    CASE cl_args.router = "OSRM" -> "OsrmRoutedWrapper"
      [] cl_args.router = "LIBOSRM" -> "LibosrmWrapper"
      [] OTHER -> "OrsWrapper"

\* C4 (amended): every returned aggregate holds the routing wrapper of the
\* configured router, in matrix mode as in routing mode, and holds a
\* matrix besides exactly when the document has one, square and of the
\* document's size.
C4_RoutingAlwaysMatrixInMatrixMode ==
    Returned =>
      /\ result.value.has_routing
      /\ result.value.routing.kind = WrapperKind
      /\ result.value.has_matrix = MatrixMode
      /\ MatrixMode =>
           /\ Len(result.value.matrix) = MatrixSize
           /\ \A r \in 1..MatrixSize :
                Len(result.value.matrix[r]) = MatrixSize
      /\ ~MatrixMode => result.value.matrix = <<>>

\* An aggregate was returned with a matrix and a routing wrapper.
C4_Witness ==
    /\ Returned
    /\ MatrixMode
    /\ result.value.has_matrix
    /\ Len(result.value.matrix) = 2
    /\ result.value.has_routing
    /\ result.value.routing.kind = "OsrmRoutedWrapper"

----------------------------------------------------------------------------
(* C5: the stages of parse *)

BuildShipment(json_shipment) ==
    IF MatrixMode THEN MatrixShipment(json_shipment, Dimension, MatrixSize)
    ELSE RoutingShipment(json_shipment, Dimension)

\* What each stage throws on the document, were parse to come to it.
SyntaxErrs ==
    IF doc.parse_error
    THEN {Exception("INPUT", "Parse error", "", Absent, 0, doc.error_offset)}
    ELSE {}
JobsShipmentsErrs ==
    IF DocHasJobs \/ DocHasShipments THEN {}
    ELSE {InputError("Invalid jobs or shipments", "")}
VehiclesErrs ==
    IF ~IsArray(doc["vehicles"]) \/ Size(doc["vehicles"]) = 0
    THEN {InputError("Invalid vehicles", "")}
    ELSE check_id(VehicleAt(1), "vehicle").errs
VehicleErrs(i) ==
    IF Failed(get_vehicle(VehicleAt(i), Dimension))
    THEN get_vehicle(VehicleAt(i), Dimension).errs
    ELSE get_string(VehicleAt(i), "profile").errs
MatrixErrs == IF MatrixMode THEN load_matrix(doc["matrix"]).errs ELSE {}
JobErrs(i) == BuildJob(JobAt(i)).errs
ShipmentErrs(i) == BuildShipment(ShipmentAt(i)).errs
RoutingErrs == routing_wrapper(cl_args, common_profile).errs

StageErrs(r, i) ==
    CASE r = 1 -> SyntaxErrs
      [] r = 2 -> JobsShipmentsErrs
      [] r = 3 -> VehiclesErrs
      [] r = 4 -> VehicleErrs(i)
      [] r = 5 -> MatrixErrs
      [] r = 6 -> JobErrs(i)
      [] r = 7 -> ShipmentErrs(i)
      [] r = 8 -> RoutingErrs
      [] OTHER -> {}

\* Every stage, and every vehicle, job and shipment, before position
\* (r, i) passes.
PassedBefore(r, i) ==
    /\ r > 1 => SyntaxErrs = {}
    /\ r > 2 => JobsShipmentsErrs = {}
    /\ r > 3 => VehiclesErrs = {}
    /\ r >= 4 =>
         \A k \in 1..(IF r = 4 THEN i - 1 ELSE Size(doc["vehicles"])) :
           VehicleErrs(k) = {}
    /\ r > 5 => MatrixErrs = {}
    /\ (r >= 6 /\ DocHasJobs) =>
         \A k \in 1..(IF r = 6 THEN i - 1 ELSE Size(doc["jobs"])) :
           JobErrs(k) = {}
    /\ (r >= 7 /\ DocHasShipments) =>
         \A k \in 1..(IF r = 7 THEN i - 1 ELSE Size(doc["shipments"])) :
           ShipmentErrs(k) = {}
    /\ r > 8 => RoutingErrs = {}

\* The state part of C5.
C5_Stopped ==
    /\ PassedBefore(Rank(pc), idx)
    /\ Rank(pc) = 6 => DocHasJobs /\ (pc = "matrix_jobs") = MatrixMode
    /\ Rank(pc) = 7 =>
         DocHasShipments /\ (pc = "matrix_shipments") = MatrixMode
    /\ Thrown =>
         /\ result.err \in StageErrs(Rank(pc), idx)
         /\ result.value = NewInput(0)
    /\ result.status = "running" => result.value = NewInput(0)
    /\ Returned =>
         /\ pc = "done"
         /\ Len(result.value.vehicles) = Size(doc["vehicles"])
         /\ Len(result.value.jobs) =
              IF DocHasJobs THEN Size(doc["jobs"]) ELSE 0
         /\ Len(result.value.shipments) =
              IF DocHasShipments THEN Size(doc["shipments"]) ELSE 0

\* The step part of C5: a step is taken while parse runs, and goes to a
\* later stage, to the next vehicle, job or shipment of the same stage, or
\* throws.
C5_Step ==
    /\ result.status = "running"
    /\ \/ Rank(pc') > Rank(pc) /\ result'.status # "thrown"
       \/ pc' = pc /\ idx' = idx + 1 /\ result'.status = "running"
       \/ pc' = pc /\ idx' = idx /\ result'.status = "thrown"

\* C5: parse goes through its stages in the order JSON syntax, jobs or
\* shipments present, vehicles present, each vehicle, the matrix if any,
\* each job, each shipment, the routing wrapper; it is at a stage only if
\* everything before passed; it returns the whole aggregate only if every
\* stage passed; an exception is one of the stage parse is at, nothing
\* runs after it and nothing is returned.
C5_StagesInOrder == [](C5_Stopped) /\ [][C5_Step]_vars

\* parse threw at the first job, after the vehicles and the matrix, for a
\* configuration whose routing wrapper could not have been built either.
C5_Witness ==
    /\ ThrownAtJob(1)
    /\ MatrixMode
    /\ Len(input.vehicles) = 1
    /\ input.has_matrix
    /\ input.jobs = <<>>
    /\ RoutingErrs # {}
    /\ ~input.has_routing

----------------------------------------------------------------------------
(* C6: jobs or shipments, and vehicles, must be there *)

NoJobsOrShipments == InputError("Invalid jobs or shipments", "")
NoVehicles == InputError("Invalid vehicles", "")

\* The vehicles key is missing, is no array, or is an empty array.
VehiclesMissing == ~(IsArray(doc["vehicles"]) /\ Size(doc["vehicles"]) > 0)

\* parse has gone through the check of lines 418-426, resp. 428-431, or
\* has thrown in it or before it.
JobsShipmentsChecked == Rank(pc) > 2 \/ Thrown
VehiclesChecked == Rank(pc) > 3 \/ Thrown

\* C6: for a document that is syntactically a JSON object, parse throws
\* the INPUT error "Invalid jobs or shipments." exactly when neither jobs
\* nor shipments is a non-empty array; otherwise it throws the INPUT error
\* "Invalid vehicles." exactly when vehicles is missing, no array or empty
\* (so the first error wins when both faults are there); and a jobs or a
\* shipments key that is not a non-empty array is skipped: parse never
\* enters its loop and a returned aggregate holds nothing for it.
C6_JobsShipmentsThenVehicles ==
    /\ (JobsShipmentsChecked /\ ~doc.parse_error) =>
         ((Thrown /\ result.err = NoJobsOrShipments)
            <=> (~DocHasJobs /\ ~DocHasShipments))
    /\ (VehiclesChecked /\ ~doc.parse_error) =>
         ((Thrown /\ result.err = NoVehicles)
            <=> ((DocHasJobs \/ DocHasShipments) /\ VehiclesMissing))
    /\ (Thrown /\ result.err = NoJobsOrShipments) =>
         pc = "check_jobs_shipments"
    /\ (Thrown /\ result.err = NoVehicles) => pc = "check_vehicles"
    /\ Rank(pc) = 6 => DocHasJobs
    /\ Rank(pc) = 7 => DocHasShipments
    /\ (Rank(pc) > 2 /\ ~DocHasJobs) => input.jobs = <<>>
    /\ (Rank(pc) > 2 /\ ~DocHasShipments) => input.shipments = <<>>

\* Neither jobs nor shipments nor vehicles is a non-empty array, and
\* parse threw for the jobs and shipments.
C6_Witness ==
    /\ Thrown
    /\ result.err = NoJobsOrShipments
    /\ doc["jobs"] = Null
    /\ doc["shipments"] = Arr(<<>>)
    /\ VehiclesMissing

\* Reachable: the vehicles are missing beside good jobs; and jobs that are
\* no array are skipped beside good shipments.
C6_VehiclesCase ==
    Thrown /\ result.err = NoVehicles /\ DocHasJobs /\ ~DocHasShipments
C6_SkipCase ==
    /\ Returned
    /\ doc["jobs"] = Null
    /\ result.value.jobs = <<>>
    /\ Len(result.value.shipments) = 2

----------------------------------------------------------------------------
(* C7: the amount key of a plain job *)

\* The numbers of an array of unsigned integers.
Numbers(v) == [k \in 1..Size(v) |-> v.a[k].n]

\* The job has an amount key and neither a delivery nor a pickup key.
AmountOnly(json_job) ==
    /\ json_job["amount"] # Absent
    /\ json_job["delivery"] = Absent
    /\ json_job["pickup"] = Absent

ExpectedDelivery(json_job) ==
    IF AmountOnly(json_job) THEN Numbers(json_job["amount"])
    ELSE IF json_job["delivery"] = Absent THEN ZeroAmount(Dimension)
    ELSE Numbers(json_job["delivery"])

ExpectedPickup(json_job) ==
    IF AmountOnly(json_job) \/ json_job["pickup"] = Absent
    THEN ZeroAmount(Dimension)
    ELSE Numbers(json_job["pickup"])

\* C7: in both branches, a built plain job with an amount key and neither
\* a delivery nor a pickup key has that amount as its delivery and the
\* zero vector of the dimension as its pickup; any other built plain job
\* has the content of its delivery key and of its pickup key, the zero
\* vector for a missing one, and is built, or refused with the same
\* errors, as the same job without its amount key.
C7_AmountIsDeliveryOnlyAlone ==
    \A i \in Indices :
      /\ JobBuilt(i) =>
           /\ input.jobs[i].delivery = ExpectedDelivery(JobAt(i))
           /\ input.jobs[i].pickup = ExpectedPickup(JobAt(i))
      /\ ((JobBuilt(i) \/ ThrownAtJob(i)) /\ ~AmountOnly(JobAt(i))) =>
           BuildJob(JobAt(i)) = BuildJob([JobAt(i) EXCEPT !.amount = Absent])

\* A job whose amount stands alone was built in routing mode, and in
\* matrix mode; a job whose amount stands beside a delivery was built.
C7_Witness ==
    /\ JobBuilt(1)
    /\ ~MatrixMode
    /\ Dimension = 2
    /\ AmountOnly(JobAt(1))
    /\ input.jobs[1].delivery = <<1, 1>>
    /\ input.jobs[1].pickup = <<0, 0>>

C7_MatrixCase ==
    /\ JobBuilt(1)
    /\ MatrixMode
    /\ AmountOnly(JobAt(1))
    /\ input.jobs[1].delivery = <<1>>
    /\ input.jobs[1].pickup = <<0>>

C7_IgnoredCase ==
    /\ JobBuilt(1)
    /\ JobAt(1)["amount"] = Null
    /\ JobAt(1)["pickup"] = Absent
    /\ input.jobs[1].delivery = <<2, 2>>
    /\ input.jobs[1].pickup = <<0, 0>>

----------------------------------------------------------------------------
(* C8: time windows are stored sorted *)

\* The windows the time_windows key of a built entity gives, in the
\* order of the document.
GivenWindows(json) ==
    [k \in 1..Size(json["time_windows"]) |->
       [start |-> json["time_windows"].a[k].a[1].n,
        end |-> json["time_windows"].a[k].a[2].n]]

Ascending(tws) ==
    \A x, y \in 1..Len(tws) :
      x < y => \/ tws[x].start < tws[y].start
               \/ tws[x].start = tws[y].start /\ tws[x].end <= tws[y].end

PermutationOf(out, given) ==
    /\ Len(out) = Len(given)
    /\ \E p \in Permutations(1..Len(given)) :
         \A k \in 1..Len(given) : out[k] = given[p[k]]

SortedWindowsOf(tws, json) ==
    Ascending(tws) /\ PermutationOf(tws, GivenWindows(json))

\* What a job, a pickup or a delivery stores.
JobWindowsOf(tws, json) ==
    IF json["time_windows"] = Absent
    THEN tws = <<[start |-> 0, end |-> MaxDuration]>>
    ELSE SortedWindowsOf(tws, json)

\* The first break of the vehicle that has no non-empty array of time
\* windows, 0 if there is none.
FirstBreakWithoutWindows(json_vehicle) ==
    LET bs == json_vehicle["breaks"].a
        bad == {k \in 1..Len(bs) :
                  ~(IsArray(bs[k]["time_windows"])
                    /\ Size(bs[k]["time_windows"]) > 0)}
    IN  IF bad = {} THEN 0 ELSE CHOOSE k \in bad : \A j \in bad : k <= j

\* The breaks a vehicle stores are the breaks of the document in some
\* order, each with its windows sorted.
BreaksOf(breaks, json_vehicle) ==
    LET bs == json_vehicle["breaks"].a IN
    /\ Len(breaks) = Len(bs)
    /\ \E p \in Permutations(1..Len(bs)) :
         \A k \in 1..Len(bs) :
           /\ breaks[k].id = bs[p[k]]["id"]
           /\ SortedWindowsOf(breaks[k].tws, bs[p[k]])

\* C8: every built job, pickup, delivery and break stores the windows of
\* its time_windows key, all of them, ascending by start and then by end;
\* a job, pickup or delivery without the key stores the one window
\* [0, max]; a vehicle with a break that has no non-empty time_windows
\* array is never built, and when that break is the vehicle's only fault
\* the INPUT error is the one that names the break by its id.
C8_TimeWindowsSorted ==
    \A i \in Indices :
      /\ JobBuilt(i) => JobWindowsOf(input.jobs[i].tws, JobAt(i))
      /\ ShipmentBuilt(i) =>
           /\ JobWindowsOf(input.shipments[i].pickup.tws,
                           ShipmentAt(i)["pickup"])
           /\ JobWindowsOf(input.shipments[i].delivery.tws,
                           ShipmentAt(i)["delivery"])
      /\ (VehicleBuilt(i) /\ IsArray(VehicleAt(i)["breaks"])) =>
           /\ FirstBreakWithoutWindows(VehicleAt(i)) = 0
           /\ BreaksOf(input.vehicles[i].breaks, VehicleAt(i))
      /\ (VehicleBuilt(i) /\ ~IsArray(VehicleAt(i)["breaks"])) =>
           input.vehicles[i].breaks = <<>>
      /\ \A k \in Indices :
           ( /\ ThrownAtVehicle(i)
             /\ IsArray(VehicleAt(i)["breaks"])
             /\ FirstBreakWithoutWindows(VehicleAt(i)) = k
             /\ ~Failed(get_vehicle([VehicleAt(i) EXCEPT !.breaks = Absent],
                                    Dimension))
             /\ \A j \in 1..Size(VehicleAt(i)["breaks"]) :
                  LET b == VehicleAt(i)["breaks"].a[j] IN
                  /\ j <= k => ValidId(b)
                  /\ j < k => ~Failed(get_break(b))
                  /\ j = k => /\ ~Failed(get_service(b))
                              /\ ~Failed(get_string(b, "description")) )
           => result.err =
                InputErrorId("Invalid time_windows array", "break",
                             VehicleAt(i)["breaks"].a[k]["id"])

\* A returned aggregate holds a job whose two windows came in descending
\* order and are stored in ascending order.
C8_Witness ==
    /\ Returned
    /\ DocHasJobs
    /\ JobAt(1)["time_windows"] =
         Arr(<<Arr(<<U(1), U(0)>>), Arr(<<U(0), U(1)>>)>>)
    /\ result.value.jobs[1].tws = <<[start |-> 0, end |-> 1],
                                    [start |-> 1, end |-> 0]>>

\* Reachable as well: the default window; a break's windows sorted; the
\* error of a break without windows.
C8_DefaultCase ==
    /\ Returned
    /\ DocHasShipments
    /\ ShipmentAt(1)["pickup"]["time_windows"] = Absent
    /\ result.value.shipments[1].pickup.tws = <<[start |-> 0, end |-> MaxDuration]>>
C8_BreakCase ==
    /\ Returned
    /\ Len(result.value.vehicles[1].breaks) = 2
    /\ result.value.vehicles[1].breaks[1].id = U(2)
    /\ result.value.vehicles[1].breaks[1].tws =
         <<[start |-> 0, end |-> 0], [start |-> 0, end |-> 1]>>
    /\ VehicleAt(1)["breaks"].a[2]["time_windows"] =
         Arr(<<Arr(<<U(0), U(1)>>), Arr(<<U(0), U(0)>>)>>)
C8_BreakError ==
    /\ ThrownAtVehicle(1)
    /\ Size(VehicleAt(1)["breaks"]) = 2
    /\ VehicleAt(1)["breaks"].a[2]["time_windows"] = Arr(<<>>)
    /\ result.err = InputErrorId("Invalid time_windows array", "break", U(2))

----------------------------------------------------------------------------
(* C9: the id of every entity is checked first *)

\* The INPUT error for an entity that is no object, or whose id is missing
\* or no unsigned 64-bit integer.
IdError(json, type) ==
    IF json.t = "object" THEN InputError("Invalid or missing id", type)
    ELSE InputError("Invalid", type)

\* parse threw at vehicle i, inside get_vehicle_breaks, at break k: the
\* vehicle's id, start and end passed, no other argument of the Vehicle
\* constructor throws, and the breaks before k are built.
ThrownAtBreak(i, k) ==
    /\ ThrownAtVehicle(i)
    /\ IsArray(VehicleAt(i)["breaks"])
    /\ k \in 1..Size(VehicleAt(i)["breaks"])
    /\ ~Failed(get_vehicle([VehicleAt(i) EXCEPT !.breaks = Absent],
                           Dimension))
    /\ \A j \in 1..(k - 1) : ~Failed(get_break(VehicleAt(i)["breaks"].a[j]))

\* C9: a built vehicle, job, pickup, delivery or break has an id that is
\* an unsigned 64-bit integer; and when the entity parse is at (the first
\* vehicle in the check of the vehicles, a vehicle, a job, the pickup of a
\* shipment, the delivery once the pickup is built, a break once the
\* breaks before it are built) has no such id, parse throws the INPUT
\* error that names the entity type, whatever its other fields hold.
C9_IdCheckedFirst ==
    /\ Rank(pc) > 3 => ValidId(VehicleAt(1))
    /\ (Thrown /\ pc = "check_vehicles" /\ ~VehiclesMissing) =>
         /\ ~ValidId(VehicleAt(1))
         /\ result.err = IdError(VehicleAt(1), "vehicle")
    /\ \A i \in Indices :
         /\ VehicleBuilt(i) =>
              /\ ValidId(VehicleAt(i))
              /\ input.vehicles[i].id = VehicleAt(i)["id"]
              /\ IsArray(VehicleAt(i)["breaks"]) =>
                   \A k \in 1..Size(VehicleAt(i)["breaks"]) :
                     ValidId(VehicleAt(i)["breaks"].a[k])
         /\ JobBuilt(i) =>
              ValidId(JobAt(i)) /\ input.jobs[i].id = JobAt(i)["id"]
         /\ ShipmentBuilt(i) =>
              /\ ValidId(ShipmentAt(i)["pickup"])
              /\ ValidId(ShipmentAt(i)["delivery"])
              /\ input.shipments[i].pickup.id = ShipmentAt(i)["pickup"]["id"]
              /\ input.shipments[i].delivery.id =
                   ShipmentAt(i)["delivery"]["id"]
         /\ (ThrownAtVehicle(i) /\ ~ValidId(VehicleAt(i))) =>
              result.err = IdError(VehicleAt(i), "vehicle")
         /\ (ThrownAtJob(i) /\ ~ValidId(JobAt(i))) =>
              result.err = IdError(JobAt(i), "job")
         /\ (ThrownAtPickup(i) /\ ~ValidId(ShipmentAt(i)["pickup"])) =>
              result.err = IdError(ShipmentAt(i)["pickup"], "pickup")
         /\ (ThrownAtDelivery(i) /\ ~ValidId(ShipmentAt(i)["delivery"])) =>
              result.err = IdError(ShipmentAt(i)["delivery"], "delivery")
         /\ \A k \in Indices :
              (ThrownAtBreak(i, k) /\ ~ValidId(VehicleAt(i)["breaks"].a[k]))
                => result.err = IdError(VehicleAt(i)["breaks"].a[k], "break")

\* parse threw for the id of a delivery, after its pickup was built, the
\* service of the delivery being bad as well.
C9_Witness ==
    /\ ThrownAtDelivery(2)
    /\ ShipmentAt(2)["delivery"]["id"] = Null
    /\ ShipmentAt(2)["delivery"]["service"] = Null
    /\ result.err = InputError("Invalid or missing id", "delivery")

\* Reachable as well: the id of a break, of a job and of a later vehicle,
\* each beside another bad field.
C9_BreakCase ==
    /\ ThrownAtBreak(1, 1)
    /\ VehicleAt(1)["breaks"].a[1]["id"] = Str("1")
    /\ VehicleAt(1)["breaks"].a[1]["time_windows"] = Null
    /\ VehicleAt(1)["breaks"].a[1]["service"] = Null
    /\ result.err = InputError("Invalid or missing id", "break")
C9_JobCase ==
    /\ ThrownAtJob(2)
    /\ JobAt(2)["service"] = Null
    /\ result.err = InputError("Invalid or missing id", "job")
C9_VehicleCase ==
    /\ ThrownAtVehicle(2)
    /\ VehicleAt(2)["capacity"] = Null
    /\ result.err = InputError("Invalid or missing id", "vehicle")

----------------------------------------------------------------------------
(* C10: locations without a matrix *)

\* The coordinates an entity gives.
GivenCoordinates(json) ==
    <<GetDouble(json["location"].a[1]), GetDouble(json["location"].a[2])>>

CoordinatesOnly(location, json) ==
    /\ ~location.has_index
    /\ location.has_coords
    /\ location.coords = GivenCoordinates(json)

LocationError(json, type) == InputErrorId("Invalid location", type, json["id"])

\* C10: without a matrix key, a built job, pickup or delivery has a
\* location made of the coordinates of its location key and of no index;
\* when the job, pickup or delivery parse is at has a valid id and no
\* location array, parse throws the INPUT error "Invalid location" that
\* names the entity type and the id; and whatever the location_index key
\* holds, the entity is built, or refused, as without it.
C10_RoutingNeedsCoordinates ==
    ~MatrixMode =>
      \A i \in Indices :
        /\ JobBuilt(i) => CoordinatesOnly(input.jobs[i].location, JobAt(i))
        /\ ShipmentBuilt(i) =>
             /\ CoordinatesOnly(input.shipments[i].pickup.location,
                                ShipmentAt(i)["pickup"])
             /\ CoordinatesOnly(input.shipments[i].delivery.location,
                                ShipmentAt(i)["delivery"])
        /\ ( /\ ThrownAtJob(i)
             /\ ValidId(JobAt(i))
             /\ ~IsArray(JobAt(i)["location"]) )
           => result.err = LocationError(JobAt(i), "job")
        /\ ( /\ ThrownAtPickup(i)
             /\ ValidId(ShipmentAt(i)["pickup"])
             /\ ~IsArray(ShipmentAt(i)["pickup"]["location"]) )
           => result.err = LocationError(ShipmentAt(i)["pickup"], "pickup")
        /\ ( /\ ThrownAtDelivery(i)
             /\ ValidId(ShipmentAt(i)["delivery"])
             /\ ~IsArray(ShipmentAt(i)["delivery"]["location"]) )
           => result.err =
                LocationError(ShipmentAt(i)["delivery"], "delivery")
        /\ (JobBuilt(i) \/ ThrownAtJob(i)) =>
             BuildJob(JobAt(i))
               = BuildJob([JobAt(i) EXCEPT !.location_index = Absent])
        /\ (ShipmentBuilt(i) \/ ThrownAtShipment(i)) =>
             BuildShipment(ShipmentAt(i))
               = BuildShipment([ShipmentAt(i) EXCEPT
                                  !.pickup.location_index = Absent,
                                  !.delivery.location_index = Absent])

\* Without a matrix, parse threw for a job that has a location_index and
\* no location.
C10_Witness ==
    /\ ~MatrixMode
    /\ ThrownAtJob(1)
    /\ JobAt(1)["location"] = Absent
    /\ JobAt(1)["location_index"] = U(0)
    /\ result.err = InputErrorId("Invalid location", "job", U(1))

\* Reachable as well: a delivery without a location; a job built with a
\* location_index that is no index.
C10_DeliveryCase ==
    /\ ~MatrixMode
    /\ ThrownAtDelivery(1)
    /\ ShipmentAt(1)["delivery"]["location"] = Null
    /\ result.err = InputErrorId("Invalid location", "delivery", U(1))
C10_BuiltCase ==
    /\ ~MatrixMode
    /\ Returned
    /\ DocHasJobs
    /\ JobAt(1)["location_index"] = Null
    /\ result.value.jobs[1].location = LocationCoords(GivenCoordinates(JobAt(1)))

----------------------------------------------------------------------------
(* C11: the routing wrapper is selected in both modes *)

\* The profile of the first vehicle, DEFAULT_PROFILE if it has none.
FirstProfile ==
    LET profile == VehicleAt(1)["profile"] IN
    IF IsString(profile) /\ profile.s # "" THEN profile.s
    ELSE DEFAULT_PROFILE

\* parse has gone through the switch of lines 672-707, or threw in it.
RoutingSelected == Rank(pc) > 8 \/ (Rank(pc) = 8 /\ Thrown)

HttpRouter == cl_args.router \in {"OSRM", "ORS"}

NoServer == InputError("Invalid profile", FirstProfile)
NoLibosrm == Exception("ROUTING", "compiled without libosrm", "", Absent, 0, 0)
LibosrmRefused ==
    Exception("ROUTING", "Invalid profile", FirstProfile, Absent, 0, 0)

\* C11: parse comes to the selection of the routing wrapper with every
\* vehicle, job and shipment built, and with the matrix loaded if there
\* is one; there, with the router OSRM or ORS, it throws the INPUT error
\* that names the common profile exactly when cl_args.servers has no
\* entry for it, with or without a matrix; with the router LIBOSRM it
\* throws a ROUTING error exactly when the build has no libosrm or the
\* wrapper cannot be constructed for the profile; and no ROUTING error is
\* thrown anywhere else.
C11_RoutingSelectedInBothModes ==
    /\ Rank(pc) >= 8 =>
         /\ Len(input.vehicles) = Size(doc["vehicles"])
         /\ Len(input.jobs) = (IF DocHasJobs THEN Size(doc["jobs"]) ELSE 0)
         /\ Len(input.shipments) =
              (IF DocHasShipments THEN Size(doc["shipments"]) ELSE 0)
         /\ input.has_matrix = MatrixMode
    /\ (RoutingSelected /\ HttpRouter) =>
         /\ Thrown <=> FirstProfile \notin cl_args.servers
         /\ Thrown => result.err = NoServer
    /\ (RoutingSelected /\ ~HttpRouter) =>
         /\ Thrown <=> \/ ~cl_args.use_libosrm
                       \/ FirstProfile \notin cl_args.libosrm_profiles
         /\ (Thrown /\ ~cl_args.use_libosrm) => result.err = NoLibosrm
         /\ (Thrown /\ cl_args.use_libosrm) => result.err = LibosrmRefused
    /\ (Thrown /\ result.err.kind = "ROUTING") =>
         pc = "set_routing" /\ ~HttpRouter
    /\ (Thrown /\ result.err.kind # "ROUTING") => result.err.kind = "INPUT"

\* With a matrix loaded and every entity built, parse threw the INPUT
\* error for a profile that has no server.
C11_Witness ==
    /\ Thrown
    /\ pc = "set_routing"
    /\ MatrixMode
    /\ input.has_matrix
    /\ cl_args.router = "ORS"
    /\ cl_args.servers = {"car"}
    /\ result.err = InputError("Invalid profile", "bike")

\* Reachable as well: the two ROUTING errors, one of them with a matrix.
C11_NoLibosrmCase ==
    Thrown /\ pc = "set_routing" /\ MatrixMode /\ result.err = NoLibosrm
C11_LibosrmRefusedCase ==
    /\ Thrown
    /\ pc = "set_routing"
    /\ result.err = Exception("ROUTING", "Invalid profile", "car", Absent, 0, 0)

----------------------------------------------------------------------------
(* C12: the common profile *)

\* The profile key of the vehicle is there and is no string.
ProfileNoString(json_vehicle) ==
    json_vehicle["profile"] # Absent /\ json_vehicle["profile"].t # "string"

\* The state part of C12.
C12_Profile ==
    /\ (pc = "add_vehicles" /\ idx = 1) => common_profile = ""
    /\ (Rank(pc) >= 4 /\ ~(pc = "add_vehicles" /\ idx = 1)) =>
         common_profile = FirstProfile
    /\ Returned => result.value.routing.profile = FirstProfile
    /\ \A i \in Indices :
         /\ VehicleBuilt(i) => ~ProfileNoString(VehicleAt(i))
         /\ ThrownAtVehicle(i) =>
              /\ get_vehicle(VehicleAt(i), Dimension)
                   = get_vehicle([VehicleAt(i) EXCEPT !.profile = Absent],
                                 Dimension)
              /\ ~Failed(get_vehicle(VehicleAt(i), Dimension)) =>
                   /\ ProfileNoString(VehicleAt(i))
                   /\ result.err = InputError("Invalid value", "profile")

\* The step part of C12: once set, the common profile stays.
C12_Step == common_profile # "" => common_profile' = common_profile

C12_DefaultCase ==
    /\ Returned
    /\ Size(doc["vehicles"]) = 2
    /\ VehicleAt(1)["profile"] = Str("")
    /\ VehicleAt(2)["profile"] = Str("bike")
    /\ result.value.routing.profile = "car"
C12_NoStringCase ==
    /\ ThrownAtVehicle(2)
    /\ VehicleAt(2)["profile"] = Null
    /\ result.err = InputError("Invalid value", "profile")

----------------------------------------------------------------------------
(* C13: the start and the end of a vehicle *)

\* The index key is there and is no unsigned integer of 32 bits; the
\* coordinates key is there and is no array of two numbers or more.
BadIndex(json, key_index) ==
    json[key_index] # Absent /\ json[key_index].t # "uint"

BadCoordinates(json, key) ==
    /\ json[key] # Absent
    /\ ~( /\ json[key].t = "array"
          /\ Len(json[key].a) >= 2
          /\ IsNumber(json[key].a[1])
          /\ IsNumber(json[key].a[2]) )

\* The four cases of an optional location.
ExpectedLocation(json, key, key_index) ==
    LET coords == <<GetDouble(json[key].a[1]), GetDouble(json[key].a[2])>>
        index == json[key_index].n
    IN  CASE json[key_index] = Absent /\ json[key] = Absent ->
               [some |-> FALSE, loc |-> LocationIndex(0)]
          [] json[key_index] # Absent /\ json[key] = Absent ->
               [some |-> TRUE,
                loc |-> [has_index |-> TRUE, index |-> index,
                         has_coords |-> FALSE, coords |-> NoCoordinates]]
          [] json[key_index] = Absent /\ json[key] # Absent ->
               [some |-> TRUE,
                loc |-> [has_index |-> FALSE, index |-> 0,
                         has_coords |-> TRUE, coords |-> coords]]
          [] OTHER ->
               [some |-> TRUE,
                loc |-> [has_index |-> TRUE, index |-> index,
                         has_coords |-> TRUE, coords |-> coords]]

\* The INPUT error of a bad start or end: the index is looked at first.
LocationKeyError(json, key, key_index) ==
    IF BadIndex(json, key_index)
    THEN InputErrorId("Invalid " \o key_index, "vehicle", json["id"])
    ELSE InputError("Invalid array", key)

BadStart(json) == BadIndex(json, "start_index") \/ BadCoordinates(json, "start")
BadEnd(json) == BadIndex(json, "end_index") \/ BadCoordinates(json, "end")

\* C13: with or without a matrix, a built vehicle has the start that its
\* start_index and start keys give and the end that its end_index and end
\* keys give, each by the four cases (neither key: none; index: the bare
\* index; coordinates: the bare coordinates; both: index and
\* coordinates); a vehicle with a valid id and an index key that is no
\* unsigned integer, or a coordinates key that is no array of two numbers
\* or more, is not built: parse throws the INPUT error of its start, or
\* of its end when the start is good.
C13_StartAndEndIndependent ==
    \A i \in Indices :
      /\ VehicleBuilt(i) =>
           /\ ~BadStart(VehicleAt(i)) /\ ~BadEnd(VehicleAt(i))
           /\ input.vehicles[i].start =
                ExpectedLocation(VehicleAt(i), "start", "start_index")
           /\ input.vehicles[i].end =
                ExpectedLocation(VehicleAt(i), "end", "end_index")
      /\ (ThrownAtVehicle(i) /\ ValidId(VehicleAt(i))
            /\ BadStart(VehicleAt(i))) =>
           result.err = LocationKeyError(VehicleAt(i), "start", "start_index")
      /\ (ThrownAtVehicle(i) /\ ValidId(VehicleAt(i))
            /\ ~BadStart(VehicleAt(i)) /\ BadEnd(VehicleAt(i))) =>
           result.err = LocationKeyError(VehicleAt(i), "end", "end_index")

\* Without a matrix, a vehicle was built with both keys for its start and
\* the index alone for its end.
C13_Witness ==
    /\ ~MatrixMode
    /\ VehicleBuilt(1)
    /\ VehicleAt(1)["start"] = Coordinates
    /\ VehicleAt(1)["start_index"] = U(0)
    /\ VehicleAt(1)["end"] = Absent
    /\ VehicleAt(1)["end_index"] = U(1)
    /\ input.vehicles[1].start =
         SomeLocation(LocationBoth(0, GivenCoordinates([location |-> Coordinates])))
    /\ input.vehicles[1].end = SomeLocation(LocationIndex(1))

\* Reachable as well: no start beside the bare coordinates of the end,
\* with a matrix; the error of an end that is no array of two numbers.
C13_MatrixCase ==
    /\ MatrixMode
    /\ VehicleBuilt(1)
    /\ VehicleAt(1)["end"] = Coordinates
    /\ input.vehicles[1].start = NoLocation
    /\ input.vehicles[1].end.loc.has_coords
    /\ ~input.vehicles[1].end.loc.has_index
C13_EndError ==
    /\ ThrownAtVehicle(1)
    /\ VehicleAt(1)["start"] = Coordinates
    /\ VehicleAt(1)["end"] = Arr(<<U(2)>>)
    /\ result.err = InputError("Invalid array", "end")

----------------------------------------------------------------------------
(* C14: the matrix *)

\* parse has gone through lines 465-491, or threw in them.
MatrixLoaded == Rank(pc) > 5
ThrownAtMatrix == Thrown /\ pc = "switch_input_type"

\* What parse objects to in a matrix that is an array of N elements: a
\* row (column 0) that is no array of length N, or a cell of such a row
\* that is no unsigned integer of 32 bits.  Rows and columns from 1.
Offences(m) ==
    LET N == Len(m.a) IN
    {<<i, 0>> : i \in {r \in 1..N : m.a[r].t # "array" \/ Len(m.a[r].a) # N}}
    \cup {p \in (1..N) \X (1..N) :
            /\ m.a[p[1]].t = "array"
            /\ Len(m.a[p[1]].a) = N
            /\ m.a[p[1]].a[p[2]].t # "uint"}

\* The first one: rows in order, and in a row the length before the
\* cells, the cells in order.
FirstOffence(m) ==
    CHOOSE p \in Offences(m) :
      \A q \in Offences(m) : p[1] < q[1] \/ (p[1] = q[1] /\ p[2] <= q[2])

\* The INPUT error of the matrix; rows and columns are named from 0.
MatrixError(m) ==
    IF m.t # "array" THEN InputError("Invalid matrix", "")
    ELSE IF FirstOffence(m)[2] = 0
    THEN Exception("INPUT", "Invalid matrix line", "", Absent,
                   FirstOffence(m)[1] - 1, 0)
    ELSE Exception("INPUT", "Invalid matrix entry", "", Absent,
                   FirstOffence(m)[1] - 1, FirstOffence(m)[2] - 1)

SquareOfUnsigned(m) == m.t = "array" /\ Offences(m) = {}

\* C14 as claimed: when the matrix is refused, the INPUT error names a
\* row, or the two coordinates of a cell.
C14_ErrorNamesRowOrCell ==
    ThrownAtMatrix =>
      result.err.tag \in {"Invalid matrix line", "Invalid matrix entry"}

\* C14 (amended): with a matrix key, parse goes on after the matrix
\* exactly when the matrix is an array of N rows that are each an array
\* of N unsigned integers of 32 bits, and then the matrix of the
\* aggregate has its cells, one for one; otherwise parse throws an INPUT
\* error: "Invalid matrix." when the matrix is no array, else, for the
\* first row that is refused, the one naming the row when it is no array
\* of length N and the one naming row and column of its first cell that
\* is no unsigned integer of 32 bits.
C14_MatrixSquareOrFirstOffence ==
    MatrixMode =>
      /\ (MatrixLoaded \/ ThrownAtMatrix) =>
           (MatrixLoaded <=> SquareOfUnsigned(doc["matrix"]))
      /\ MatrixLoaded =>
           /\ matrix_size = Len(doc["matrix"].a)
           /\ input.has_matrix
           /\ Len(input.matrix) = Len(doc["matrix"].a)
           /\ \A i \in 1..Len(doc["matrix"].a) :
                /\ Len(input.matrix[i]) = Len(doc["matrix"].a)
                /\ \A j \in 1..Len(doc["matrix"].a) :
                     input.matrix[i][j] = doc["matrix"].a[i].a[j].n
      /\ ThrownAtMatrix => result.err = MatrixError(doc["matrix"])

\* parse threw for a cell of the first row, the second row being too
\* short.
C14_Witness ==
    /\ ThrownAtMatrix
    /\ doc["matrix"] = Arr(<<Arr(<<U(1), NegInt(1)>>), Arr(<<U(1)>>)>>)
    /\ result.err = Exception("INPUT", "Invalid matrix entry", "", Absent, 0, 1)

\* Reachable as well: the error of a row, of a matrix that is no array,
\* and a matrix taken over.
C14_RowCase ==
    /\ ThrownAtMatrix
    /\ doc["matrix"] = Arr(<<Arr(<<U(1), U(1)>>), Arr(<<NegInt(1)>>)>>)
    /\ result.err = Exception("INPUT", "Invalid matrix line", "", Absent, 1, 0)
C14_NoArrayCase ==
    /\ ThrownAtMatrix
    /\ doc["matrix"] = Null
    /\ result.err = InputError("Invalid matrix", "")
C14_LoadedCase ==
    /\ Returned
    /\ doc["matrix"] = Arr(<<Arr(<<U(0), U(7)>>), Arr(<<U(3), U(0)>>)>>)
    /\ result.value.matrix = <<(<<0, 7>>), (<<3, 0>>)>>

====
